---- MODULE Spec2Model ----
(***************************************************************************)
(* Model of the Smart Charter Party generator: text extraction, recap term *)
(* extraction, template field location, term-to-field mapping, template    *)
(* filling and validation.                                                 *)
(*                                                                         *)
(* Conventions                                                             *)
(*   - a text is a sequence of one-character strings;                      *)
(*   - a Python dict whose iteration order matters is a sequence of        *)
(*     entries with distinct keys, in insertion order;                     *)
(*   - a confidence or similarity is an integer number of hundredths       *)
(*     (0.8 is 80), a quotient is the pair <<numerator, denominator>>;     *)
(*   - a span (start, end) is the pair <<start, end>>, 0-based, end        *)
(*     exclusive, as returned by re.Match.span().                          *)
(***************************************************************************)
EXTENDS Integers, Sequences, FiniteSets, TLC

VARIABLES
    pc,                \* position of the request in its pipeline
    recap_data,        \* recap_data argument of generate: terms and NLP entities
    structured_fields, \* template_data["structured_fields"]
    original_text,     \* template_data["original_data"]["original_text"]
    output_format,     \* output_format argument of generate/_fill_template
    docx_available,    \* whether the import of python-docx succeeded
    vectorizer,        \* whether self.vectorizer is set (scikit-learn imported)
    similarities,      \* what the vectorizer and cosine_similarity returned
    recap_terms,       \* result of _extract_recap_terms
    field_mappings,    \* list built by _map_terms_to_fields
    filled_text,       \* local filled_text of _fill_template after its loop
    filled_document,   \* result of _fill_template
    changes,           \* result of _track_changes
    validation,        \* result of _validate_generated_document
    statistics,        \* result["statistics"] of generate
    matches,           \* the list passed to RecapParser._deduplicate_matches
    unique_matches,    \* the list it returns
    rerun_matches,     \* what it returns when applied to unique_matches
    file,              \* the file at file_path, as the libraries see it
    libs_available,    \* the guarded imports of the parser modules succeeded
    extraction,        \* what the text extraction returned or raised
    file_reads,        \* opens of the file during the extraction
    template_text,     \* the text of the uploaded template file
    recap_text,        \* the text of the uploaded recap file
    template_type,     \* the template_type parameter of the template upload
    request,           \* what a request to an entry point names and finds
    outcome,           \* what the entry point returned or raised
    documents_db,      \* the generated-document records of the API
    paragraph          \* the runs of a paragraph of the template document

\* the state of a generation request
genVars == <<recap_data, structured_fields, original_text, output_format,
             docx_available, vectorizer, similarities, recap_terms,
             field_mappings, filled_text, filled_document, changes, validation,
             statistics>>

\* the state of a deduplication
dedupVars == <<matches, unique_matches, rerun_matches>>

\* the state of a text extraction
extractVars == <<file, libs_available, extraction, file_reads>>

\* the uploads of a session
uploadVars == <<template_text, recap_text, template_type>>

\* a request to a top-level entry point and its result
requestVars == <<request, outcome, documents_db>>

\* a paragraph of a .docx template
docxVars == <<paragraph>>

vars == <<pc, genVars, dedupVars, extractVars, uploadVars, requestVars,
          docxVars>>

----------------------------------------------------------------------------
(* Bounds of the model *)

MaxTextLen == 3
MaxMappings == 2
MaxTerms == 2
MaxEntities == 1
MaxFields == 2
MaxValidated == 4
MaxWords == 2
MaxRecapEntities == 2
MaxRuns == 3
MaxSameType == 2
MaxMatches == 3
MaxPos == 2
MaxPages == 2
MaxParagraphs == 2
MaxNerEntities == 1

----------------------------------------------------------------------------
(* Python helpers *)

None == [is_none |-> TRUE]

Min(a, b) == IF a < b THEN a ELSE b
Max(a, b) == IF a > b THEN a ELSE b

\* t[a:b] for non-negative a, b
Slice(t, a, b) == SubSeq(t, Min(a, Len(t)) + 1, Min(b, Len(t)))

\* t[a:] for non-negative a
SliceFrom(t, a) == SubSeq(t, Min(a, Len(t)) + 1, Len(t))

\* lexicographic order of two tuples of integers of the same length
RECURSIVE LexLess(_, _)
LexLess(k1, k2) ==
    IF k1 = <<>> THEN FALSE
    ELSE IF Head(k1) # Head(k2) THEN Head(k1) < Head(k2)
    ELSE LexLess(Tail(k1), Tail(k2))

\* list.sort / sorted: a stable sort; keys[i] is the key of the i-th
\* element, the result is the sequence of indices in sorted order
RECURSIVE InsertStable(_, _, _)
InsertStable(perm, i, keys) ==
    IF perm = <<>> THEN <<i>>
    ELSE IF LexLess(keys[i], keys[Head(perm)])
         THEN <<i>> \o perm
         ELSE <<Head(perm)>> \o InsertStable(Tail(perm), i, keys)

RECURSIVE SortPermFrom(_, _, _)
SortPermFrom(perm, i, keys) ==
    IF i > Len(keys) THEN perm
    ELSE SortPermFrom(InsertStable(perm, i, keys), i + 1, keys)

SortPerm(keys) == SortPermFrom(<<>>, 1, keys)

\* sorted(..., reverse=True) keeps the original order of equal keys: it is
\* the stable sort on the negated keys
SortPermReverse(keys) ==
    SortPerm([i \in 1..Len(keys) |->
                 [j \in 1..Len(keys[i]) |-> 0 - keys[i][j]]])

Permute(seq, perm) == [i \in 1..Len(perm) |-> seq[perm[i]]]

----------------------------------------------------------------------------
(* CPGenerator._fill_template and the output builders *)

\* the sort of _fill_template without reverse=True
SortedMappingsAscending(mappings) ==
    LET filled == SelectSeq(mappings, LAMBDA m : m.filled)
    IN  Permute(filled,
                SortPerm([i \in 1..Len(filled) |->
                             <<filled[i].field_position[1]>>]))

\* [m for m in field_mappings if m.get("filled", False)] sorted by
\* field_position[0], reverse=True
SortedMappings(mappings) ==
    LET filled == SelectSeq(mappings, LAMBDA m : m.filled)
    IN  Permute(filled,
                SortPermReverse([i \in 1..Len(filled) |->
                                    <<filled[i].field_position[1]>>]))

\* the loop body of _fill_template with modifications.insert(0, ...) in
\* place of modifications.append(...)
FillStepInsertFirst(st, mapping) ==
    LET position == mapping.field_position
        value    == mapping.mapped_term.value
        start    == position[1]
        end      == position[2]
    IN  IF value # <<>> /\ start < Len(st.filled_text)
        THEN [filled_text |-> Slice(st.filled_text, 0, start) \o value
                                  \o SliceFrom(st.filled_text, end),
              modifications |-> <<[position   |-> position,
                                   old_text   |-> Slice(st.filled_text, start, end),
                                   new_text   |-> value,
                                   field_type |-> mapping.field_type,
                                   confidence |-> mapping.confidence]>>
                                \o st.modifications]
        ELSE st

\* one iteration of the replacement loop of _fill_template; st is
\* [filled_text, modifications]
FillStep(st, mapping) ==
    LET position == mapping.field_position
        value    == mapping.mapped_term.value
        start    == position[1]
        end      == position[2]
    IN  IF value # <<>> /\ start < Len(st.filled_text)
        THEN [filled_text |-> Slice(st.filled_text, 0, start) \o value
                                  \o SliceFrom(st.filled_text, end),
              modifications |-> Append(st.modifications,
                  [position   |-> position,
                   old_text   |-> Slice(st.filled_text, start, end),
                   new_text   |-> value,
                   field_type |-> mapping.field_type,
                   confidence |-> mapping.confidence])]
        ELSE st

RECURSIVE FillLoop(_, _)
FillLoop(st, sorted) ==
    IF sorted = <<>> THEN st
    ELSE FillLoop(FillStep(st, Head(sorted)), Tail(sorted))

\* sorted(modifications, key=lambda x: x["position"][0])
SortedMods(modifications) ==
    Permute(modifications,
            SortPerm([i \in 1..Len(modifications) |->
                         <<modifications[i].position[1]>>]))

\* CPGenerator._highlight_modifications_in_html; acc is [result, current_pos]
RECURSIVE HighlightLoop(_, _, _)
HighlightLoop(acc, text, mods) ==
    IF mods = <<>> THEN acc.result \o SliceFrom(text, acc.current_pos)
    ELSE LET mod == Head(mods)
         IN  HighlightLoop(
                 [result |-> acc.result
                                \o Slice(text, acc.current_pos, mod.position[1])
                                \o <<"<span class=\"modified\">">>
                                \o mod.new_text \o <<"</span>">>,
                  current_pos |-> mod.position[2]],
                 text, Tail(mods))

HighlightModificationsInHtml(text, modifications) ==
    IF modifications = <<>> THEN text
    ELSE HighlightLoop([result |-> <<>>, current_pos |-> 0], text,
                       SortedMods(modifications))

\* the decimal digit d as a character
Digit(d) == CASE d = 0 -> "0" [] d = 1 -> "1" [] d = 2 -> "2" [] d = 3 -> "3"
              [] d = 4 -> "4" [] d = 5 -> "5" [] d = 6 -> "6" [] d = 7 -> "7"
              [] d = 8 -> "8" [] d = 9 -> "9"

\* the <li> lines of the change summary of _create_html_output; Format2f is
\* f"{confidence:.2f}" of a confidence given in hundredths
RECURSIVE ChangeItems(_, _)
ChangeItems(modifications, i) ==
    IF i > Len(modifications) THEN <<>>
    ELSE LET mod == modifications[i]
             Format2f(c) == <<Digit(c \div 100), ".", Digit((c % 100) \div 10),
                              Digit(c % 10)>>
         IN  <<"<li>Field ", Digit(i), ": ", mod.field_type, " - \"">>
                 \o mod.old_text \o <<"\" -> \"">> \o mod.new_text
                 \o <<"\" (Confidence: ">> \o Format2f(mod.confidence)
                 \o <<")</li>">>
                 \o ChangeItems(modifications, i + 1)

\* CPGenerator._create_html_output; the fixed markup is kept as single
\* elements, the generation time as the element "<now>"
CreateHtmlOutput(ftext, modifications) ==
    [format        |-> "html",
     content       |-> <<"<html><head/><body><div class=\"header\">CHARTER PARTY</div>",
                         "<div class=\"info\">Generated on: ", "<now>", "</div>",
                         "<div class=\"content\">">>
                       \o HighlightModificationsInHtml(ftext, modifications)
                       \o <<"</div>", "<div class=\"change-summary\"><ul>">>
                       \o ChangeItems(modifications, 1)
                       \o <<"</ul></div></body></html>">>,
     modifications |-> modifications]

\* the paragraphs added by the loop of _create_docx_output; acc is
\* [paragraphs, current_pos]
RECURSIVE DocxLoop(_, _, _)
DocxLoop(acc, content_text, mods) ==
    IF mods = <<>>
    THEN IF acc.current_pos < Len(content_text)
         THEN Append(acc.paragraphs,
                     [text |-> SliceFrom(content_text, acc.current_pos),
                      highlighted |-> FALSE])
         ELSE acc.paragraphs
    ELSE LET mod    == Head(mods)
             before == IF acc.current_pos < mod.position[1]
                       THEN <<[text |-> Slice(content_text, acc.current_pos,
                                              mod.position[1]),
                               highlighted |-> FALSE]>>
                       ELSE <<>>
         IN  DocxLoop([paragraphs |-> acc.paragraphs \o before
                           \o <<[text |-> mod.new_text, highlighted |-> TRUE]>>,
                       current_pos |-> mod.position[2]],
                      content_text, Tail(mods))

\* CPGenerator._create_docx_output; raises ImportError without python-docx
CreateDocxOutput(ftext, modifications, have_docx) ==
    IF ~have_docx
    THEN [raised |-> "ImportError", message |-> "python-docx library not available"]
    ELSE [format        |-> "docx",
          document      |-> DocxLoop(
              [paragraphs |-> <<[text |-> <<"CHARTER PARTY">>, highlighted |-> FALSE],
                                [text |-> <<"Generated on: ", "<now>">>,
                                 highlighted |-> FALSE]>>,
               current_pos |-> 0],
              ftext, SortedMods(modifications)),
          modifications |-> modifications,
          content       |-> ftext]

\* str.lower() on the format names a caller passes
LowerFormat(format) ==
    CASE format = "DOCX" -> "docx"
      [] format = "HTML" -> "html"
      [] OTHER -> format

\* the replacement loop of _fill_template
FillText(text, mappings) ==
    FillLoop([filled_text |-> text, modifications |-> <<>>],
             SortedMappings(mappings))

\* CPGenerator._fill_template
FillTemplate(text, mappings, output_fmt, have_docx) ==
    LET st == FillText(text, mappings)
        format == LowerFormat(output_fmt)
    IN  CASE format = "docx" ->
                CreateDocxOutput(st.filled_text, st.modifications, have_docx)
          [] format = "html" ->
                CreateHtmlOutput(st.filled_text, st.modifications)
          [] OTHER ->
                [content       |-> st.filled_text,
                 format        |-> "text",
                 modifications |-> st.modifications]

IsRaised(r) == "raised" \in DOMAIN r

----------------------------------------------------------------------------
(* CPGenerator: recap terms and term-to-field mapping *)

\* dict operations on a sequence of entries [key |-> ..., ...]
HasKey(dict, k) == \E i \in 1..Len(dict) : dict[i].key = k

Get(dict, k) == dict[CHOOSE i \in 1..Len(dict) : dict[i].key = k]

\* CPGenerator.similarity_threshold and confidence_threshold, in hundredths
similarity_threshold == 30
confidence_threshold == 60

\* CPGenerator.term_mappings, in declared order
term_mappings ==
    <<[key |-> "freight",        types |-> <<"freight_rate", "freight">>],
      [key |-> "cargo",          types |-> <<"cargo", "commodity">>],
      [key |-> "vessel",         types |-> <<"vessel_name", "vessel">>],
      [key |-> "charterer",      types |-> <<"charterer", "chtr">>],
      [key |-> "owner",          types |-> <<"owner", "disponent">>],
      [key |-> "load_port",      types |-> <<"load_port", "loading_port", "port_of_loading">>],
      [key |-> "discharge_port", types |-> <<"discharge_port", "discharging_port", "port_of_discharge">>],
      [key |-> "quantity",       types |-> <<"quantity", "tonnage">>],
      [key |-> "demurrage",      types |-> <<"demurrage", "dem">>],
      [key |-> "despatch",       types |-> <<"despatch", "dispatch", "desp">>],
      [key |-> "laycan",         types |-> <<"laycan_start", "laycan_end", "laycan">>],
      [key |-> "laytime",        types |-> <<"laytime", "lay_time">>]>>

InSeq(x, seq) == \E i \in 1..Len(seq) : seq[i] = x

\* CPGenerator._map_entity_to_term_type
MapEntityToTermType(entity_label) ==
    CASE entity_label = "ORG"     -> "charterer"
      [] entity_label = "GPE"     -> "load_port"
      [] entity_label = "MONEY"   -> "freight_rate"
      [] entity_label = "DATE"    -> "laycan_start"
      [] entity_label = "PRODUCT" -> "cargo"
      [] OTHER -> "None"

\* the last element of greatest confidence
BestMatchLast(term_data) ==
    term_data[CHOOSE i \in 1..Len(term_data) :
        /\ \A j \in 1..Len(term_data) : term_data[j].confidence <= term_data[i].confidence
        /\ \A j \in (i + 1)..Len(term_data) : term_data[j].confidence < term_data[i].confidence]

\* max(term_data, key=lambda x: x.get("confidence", 0)): the first element
\* of greatest confidence
BestMatch(term_data) ==
    term_data[CHOOSE i \in 1..Len(term_data) :
        /\ \A j \in 1..Len(term_data) : term_data[j].confidence <= term_data[i].confidence
        /\ \A j \in 1..(i - 1) : term_data[j].confidence < term_data[i].confidence]

\* the first loop of _extract_recap_terms, over recap_data["terms"]
RECURSIVE RegexTerms(_)
RegexTerms(terms) ==
    IF terms = <<>> THEN <<>>
    ELSE LET entry == Head(terms)
         IN  (IF entry.matches # <<>>
              THEN <<[key            |-> entry.key,
                      value          |-> BestMatch(entry.matches).value,
                      confidence     |-> BestMatch(entry.matches).confidence,
                      original_match |-> BestMatch(entry.matches).full_match,
                      source         |-> "regex_extraction"]>>
              ELSE <<>>)
             \o RegexTerms(Tail(terms))

\* the second loop of _extract_recap_terms with an entity stored under its
\* term type whatever the terms hold: a later entity takes the place of a
\* term of its type
RECURSIVE AddEntitiesOverride(_, _)
AddEntitiesOverride(extracted_terms, entities) ==
    IF entities = <<>> THEN extracted_terms
    ELSE LET entity      == Head(entities)
             entity_type == MapEntityToTermType(entity.label)
             term        == [key            |-> entity_type,
                             value          |-> entity.text,
                             confidence     |-> entity.confidence,
                             original_match |-> entity.text,
                             source         |-> "nlp_extraction"]
         IN  AddEntitiesOverride(
                 IF entity_type = "None" THEN extracted_terms
                 ELSE IF HasKey(extracted_terms, entity_type)
                 THEN [k \in 1..Len(extracted_terms) |->
                          IF extracted_terms[k].key = entity_type THEN term
                          ELSE extracted_terms[k]]
                 ELSE Append(extracted_terms, term),
                 Tail(entities))

\* the second loop of _extract_recap_terms, over the NLP entities
RECURSIVE AddEntities(_, _)
AddEntities(extracted_terms, entities) ==
    IF entities = <<>> THEN extracted_terms
    ELSE LET entity      == Head(entities)
             entity_type == MapEntityToTermType(entity.label)
         IN  AddEntities(
                 IF entity_type # "None" /\ ~HasKey(extracted_terms, entity_type)
                 THEN Append(extracted_terms,
                             [key            |-> entity_type,
                              value          |-> entity.text,
                              confidence     |-> entity.confidence,
                              original_match |-> entity.text,
                              source         |-> "nlp_extraction"])
                 ELSE extracted_terms,
                 Tail(entities))

\* CPGenerator._extract_recap_terms
ExtractRecapTerms(data) == AddEntities(RegexTerms(data.terms), data.entities)

\* recap_terms[k].copy() with term["mapping_method"] = method
CopyWithMethod(term, method) ==
    [value          |-> term.value,
     confidence     |-> term.confidence,
     original_match |-> term.original_match,
     source         |-> term.source,
     mapping_method |-> method]

\* the alias loop recording the method of an exact match
RECURSIVE FindMappedTypeAsDirect(_, _, _)
FindMappedTypeAsDirect(field_type, terms, i) ==
    IF i > Len(term_mappings) THEN None
    ELSE IF InSeq(field_type, term_mappings[i].types)
              /\ HasKey(terms, term_mappings[i].key)
         THEN CopyWithMethod(Get(terms, term_mappings[i].key), "direct")
         ELSE FindMappedTypeAsDirect(field_type, terms, i + 1)

\* the loop over term_mappings.items() of _find_direct_mapping, from entry i
RECURSIVE FindMappedType(_, _, _)
FindMappedType(field_type, terms, i) ==
    IF i > Len(term_mappings) THEN None
    ELSE IF InSeq(field_type, term_mappings[i].types)
              /\ HasKey(terms, term_mappings[i].key)
         THEN CopyWithMethod(Get(terms, term_mappings[i].key), "mapped")
         ELSE FindMappedType(field_type, terms, i + 1)

\* _find_direct_mapping looking in the alias table before the exact key
FindDirectMappingAliasFirst(field_type, terms) ==
    IF FindMappedType(field_type, terms, 1) # None
    THEN FindMappedType(field_type, terms, 1)
    ELSE IF HasKey(terms, field_type)
         THEN CopyWithMethod(Get(terms, field_type), "direct")
         ELSE None

\* CPGenerator._find_direct_mapping
FindDirectMapping(field_type, terms) ==
    IF HasKey(terms, field_type)
    THEN CopyWithMethod(Get(terms, field_type), "direct")
    ELSE FindMappedType(field_type, terms, 1)

\* the loop accepting a similarity equal to the threshold
RECURSIVE BestSimilarityAtLeast(_, _, _, _)
BestSimilarityAtLeast(best, terms, sims, i) ==
    IF i > Len(sims) THEN best.best_match
    ELSE IF sims[i] >= similarity_threshold /\ sims[i] > best.best_similarity
         THEN BestSimilarityAtLeast(
                  [best_match |-> [value            |-> terms[i].value,
                                   confidence       |-> terms[i].confidence,
                                   original_match   |-> terms[i].original_match,
                                   source           |-> terms[i].source,
                                   mapping_method   |-> "semantic",
                                   similarity_score |-> sims[i]],
                   best_similarity |-> sims[i]],
                  terms, sims, i + 1)
         ELSE BestSimilarityAtLeast(best, terms, sims, i + 1)

\* the loop over the similarities of _find_semantic_mapping; best is
\* [best_match, best_similarity]
RECURSIVE BestSimilarity(_, _, _, _)
BestSimilarity(best, terms, sims, i) ==
    IF i > Len(sims) THEN best.best_match
    ELSE IF sims[i] > similarity_threshold /\ sims[i] > best.best_similarity
         THEN BestSimilarity(
                  [best_match |-> [value            |-> terms[i].value,
                                   confidence       |-> terms[i].confidence,
                                   original_match   |-> terms[i].original_match,
                                   source           |-> terms[i].source,
                                   mapping_method   |-> "semantic",
                                   similarity_score |-> sims[i]],
                   best_similarity |-> sims[i]],
                  terms, sims, i + 1)
         ELSE BestSimilarity(best, terms, sims, i + 1)

\* CPGenerator._find_semantic_mapping; sims.values is what cosine_similarity
\* returns for this context and these terms, one value per term in
\* iteration order, sims.raised tells that the vectorizer raised instead
FindSemanticMapping(field, terms, have_vectorizer, sims) ==
    IF ~have_vectorizer THEN None
    ELSE IF field.context = <<>> THEN None
    ELSE IF sims.raised THEN None
    ELSE BestSimilarity([best_match |-> None, best_similarity |-> 0],
                        terms, sims.values, 1)

\* the body of the loop of _map_terms_to_fields for one field
MapField(field, terms, have_vectorizer, sims) ==
    LET direct      == FindDirectMapping(field.type, terms)
        mapped_term == IF direct = None
                       THEN FindSemanticMapping(field, terms, have_vectorizer, sims)
                       ELSE direct
    IN  [field_id       |-> field.id,
         field_type     |-> field.type,
         field_position |-> field.position,
         field_context  |-> field.context,
         mapped_term    |-> mapped_term,
         filled         |-> mapped_term # None,
         confidence     |-> IF mapped_term # None THEN mapped_term.confidence ELSE 0,
         mapping_method |-> IF mapped_term # None
                            THEN mapped_term.mapping_method ELSE "none"]

\* CPGenerator._map_terms_to_fields
MapTermsToFields(terms, fields, have_vectorizer, sims) ==
    [i \in 1..Len(fields) |-> MapField(fields[i], terms, have_vectorizer, sims)]

\* term = recap_terms[k] without .copy(): the dictionary's own object
CopyTermAlias(objects, ref) == [objects |-> objects, ref |-> ref]

\* recap_terms[k].copy(): a new object with the items of objects[ref]
CopyTerm(objects, ref) ==
    [objects |-> Append(objects, objects[ref]), ref |-> Len(objects) + 1]

\* _map_terms_to_fields on the objects of the interpreter. The dictionary
\* recap_terms[terms[i].key] is object i; a copy is a new object, and
\* term["mapping_method"] = ... and term["similarity_score"] = ... write to
\* the object that term refers to. The result is the objects after the call
\* and, for every field, the object that mapped_term refers to (0 for None)
MapTermsToFieldsObjects(terms, fields, have_vectorizer, sims) ==
    LET KeyRef(k) == CHOOSE i \in 1..Len(terms) : terms[i].key = k
        SetItem(objects, ref, key, value) ==
            [objects EXCEPT ![ref] =
                [k \in DOMAIN objects[ref] \cup {key} |->
                    IF k = key THEN value ELSE objects[ref][k]]]
        CopyAndMark(objects, ref, method) ==
            LET term == CopyTerm(objects, ref)
            IN  [objects |-> SetItem(term.objects, term.ref,
                                     "mapping_method", method),
                 ref     |-> term.ref]
        Aliases(field_type) ==
            {i \in 1..Len(term_mappings) :
                /\ InSeq(field_type, term_mappings[i].types)
                /\ HasKey(terms, term_mappings[i].key)}
        RECURSIVE SemanticLoop(_, _, _)
        SemanticLoop(best, best_similarity, i) ==
            IF i > Len(sims.values) THEN best
            ELSE IF /\ sims.values[i] > similarity_threshold
                    /\ sims.values[i] > best_similarity
                 THEN LET term == CopyAndMark(best.objects, i, "semantic")
                      IN  SemanticLoop(
                              [objects |-> SetItem(term.objects, term.ref,
                                                   "similarity_score",
                                                   sims.values[i]),
                               ref     |-> term.ref],
                              sims.values[i], i + 1)
                 ELSE SemanticLoop(best, best_similarity, i + 1)
        MapFieldObjects(objects, field) ==
            IF HasKey(terms, field.type)
            THEN CopyAndMark(objects, KeyRef(field.type), "direct")
            ELSE IF Aliases(field.type) # {}
            THEN CopyAndMark(
                     objects,
                     KeyRef(term_mappings[
                                CHOOSE i \in Aliases(field.type) :
                                    \A j \in Aliases(field.type) : i <= j].key),
                     "mapped")
            ELSE IF have_vectorizer /\ field.context # <<>> /\ ~sims.raised
            THEN SemanticLoop([objects |-> objects, ref |-> 0], 0, 1)
            ELSE [objects |-> objects, ref |-> 0]
        RECURSIVE FieldLoop(_, _, _)
        FieldLoop(objects, refs, j) ==
            IF j > Len(fields) THEN [objects |-> objects, refs |-> refs]
            ELSE LET term == MapFieldObjects(objects, fields[j])
                 IN  FieldLoop(term.objects, Append(refs, term.ref), j + 1)
    IN  FieldLoop(terms, <<>>, 1)

----------------------------------------------------------------------------
(* CPGenerator: change tracking, validation, statistics *)

\* CPGenerator._track_changes
RECURSIVE TrackChanges(_, _)
TrackChanges(mappings, changes_so_far) ==
    IF mappings = <<>> THEN changes_so_far
    ELSE LET mapping == Head(mappings)
         IN  TrackChanges(Tail(mappings),
                 IF mapping.filled
                 THEN Append(changes_so_far,
                          [change_id      |-> Len(changes_so_far) + 1,
                           field_id       |-> mapping.field_id,
                           field_type     |-> mapping.field_type,
                           position       |-> mapping.field_position,
                           original_text  |-> mapping.field_context,
                           new_value      |-> mapping.mapped_term.value,
                           confidence     |-> mapping.confidence,
                           mapping_method |-> mapping.mapped_term.mapping_method,
                           source_term    |-> mapping.mapped_term.original_match,
                           timestamp      |-> "<now>"])
                 ELSE changes_so_far)

FilledFields(mappings) == SelectSeq(mappings, LAMBDA m : m.filled)

RECURSIVE SumConfidence(_)
SumConfidence(mappings) ==
    IF mappings = <<>> THEN 0
    ELSE Head(mappings).confidence + SumConfidence(Tail(mappings))

\* completeness with the integer division // in place of /
CompletenessScoreFloorDiv(mappings) ==
    IF Len(mappings) > 0
    THEN <<Len(FilledFields(mappings)) \div Len(mappings), 1>>
    ELSE <<0, 1>>

\* validation["completeness_score"] of _validate_generated_document
CompletenessScore(mappings) ==
    IF Len(mappings) > 0
    THEN <<Len(FilledFields(mappings)), Len(mappings)>>
    ELSE <<0, 1>>

critical_fields == <<"vessel_name", "charterer", "owner", "cargo">>

\* the critical fields without a mapping of their type, filled or not
MissingCriticalUnfilledIncluded(mappings) ==
    SelectSeq(critical_fields,
              LAMBDA field_type :
                  ~\E i \in 1..Len(mappings) :
                      mappings[i].field_type = field_type)

\* missing_critical of _validate_generated_document
MissingCritical(mappings) ==
    SelectSeq(critical_fields,
              LAMBDA field_type :
                  ~\E i \in 1..Len(mappings) :
                      mappings[i].field_type = field_type /\ mappings[i].filled)

\* ', '.join(names)
RECURSIVE Join(_)
Join(names) ==
    IF names = <<>> THEN <<>>
    ELSE IF Len(names) = 1 THEN names
    ELSE <<Head(names), ", ">> \o Join(Tail(names))

\* CPGenerator._validate_generated_document
ValidateGeneratedDocument(document, mappings) ==
    LET missing_critical == MissingCritical(mappings)
        low_confidence_fields ==
            SelectSeq(FilledFields(mappings),
                      LAMBDA m : m.confidence < confidence_threshold)
    IN  [is_valid           |-> missing_critical = <<>>,
         errors             |-> IF missing_critical # <<>>
                                THEN <<<<"Missing critical fields: ">>
                                          \o Join(missing_critical)>>
                                ELSE <<>>,
         warnings           |->
             (IF low_confidence_fields # <<>>
              THEN <<<<Digit(Len(low_confidence_fields)),
                       " fields have low confidence scores">>>>
              ELSE <<>>)
             \o (IF 10 * CompletenessScore(mappings)[1]
                        < 7 * CompletenessScore(mappings)[2]
                 THEN <<<<"Document may be incomplete - less than 70% of fields filled">>>>
                 ELSE <<>>),
         completeness_score |-> CompletenessScore(mappings),
         confidence_score   |->
             IF FilledFields(mappings) # <<>>
             THEN <<SumConfidence(FilledFields(mappings)),
                    Len(FilledFields(mappings))>>
             ELSE <<0, 1>>]

\* the overall confidence averaged over all the mappings
CalculateOverallConfidenceOverAll(mappings) ==
    IF FilledFields(mappings) = <<>> THEN <<0, 1>>
    ELSE <<SumConfidence(FilledFields(mappings)), Len(mappings)>>

\* CPGenerator._calculate_overall_confidence
CalculateOverallConfidence(mappings) ==
    IF FilledFields(mappings) = <<>> THEN <<0, 1>>
    ELSE <<SumConfidence(FilledFields(mappings)), Len(FilledFields(mappings))>>

\* result["statistics"] of generate
Statistics(mappings) ==
    [fields_filled    |-> Len(FilledFields(mappings)),
     total_fields     |-> Len(mappings),
     confidence_score |-> CalculateOverallConfidence(mappings)]

----------------------------------------------------------------------------
(* Inputs of the substitution step *)

Alphabet == <<"a", "b", "c", "d", "e", "f", "g", "h", "i", "j", "k", "l">>

\* a term as _find_direct_mapping returns it
MappedTerm(value, confidence, method) ==
    [value |-> value, confidence |-> confidence, original_match |-> value,
     source |-> "regex_extraction", mapping_method |-> method]

\* a field mapping as _map_terms_to_fields builds it
Mapping(id, type, position, context, term) ==
    [field_id       |-> id,
     field_type     |-> type,
     field_position |-> position,
     field_context  |-> context,
     mapped_term    |-> term,
     filled         |-> term # None,
     confidence     |-> IF term # None THEN term.confidence ELSE 0,
     mapping_method |-> IF term # None THEN term.mapping_method ELSE "none"]

\* the mapping lists of the substitution step: the spans of the placeholders
\* are non-empty and may reach past a shorter text, the values are empty or
\* two characters long
FillMappingLists ==
    LET Spans == {sp \in (0..MaxTextLen) \X (1..(MaxTextLen + 1)) :
                     sp[1] < sp[2]}
        FillTerms == {None} \cup {MappedTerm(v, 80, "direct") :
                                     v \in {<<>>, <<"X", "Y">>}}
    IN  UNION {[1..n -> {Mapping("field", "cargo", sp, <<>>, t) :
                            sp \in Spans, t \in FillTerms}] :
               n \in 0..MaxMappings}

\* no request made, nothing returned, no record stored, no paragraph
RequestIdle ==
    /\ request = None
    /\ outcome = None
    /\ documents_db = <<>>
    /\ paragraph = <<>>

\* nothing uploaded
UploadIdle ==
    /\ template_text = <<>>
    /\ recap_text = <<>>
    /\ template_type = "GENCON"
    /\ RequestIdle

ExtractIdle ==
    /\ UploadIdle
    /\ file = [ext |-> ""]
    /\ libs_available = TRUE
    /\ extraction = None
    /\ file_reads = 0

\* no deduplication and no extraction in progress
DedupIdle ==
    /\ matches = <<>> /\ unique_matches = <<>> /\ rerun_matches = <<>>
    /\ ExtractIdle

NoRecap == [terms |-> <<>>, entities |-> <<>>]
NotCalled == [raised |-> FALSE, values |-> <<>>]

InitFill ==
    /\ pc = "fill"
    /\ original_text \in {SubSeq(Alphabet, 1, n) : n \in 0..MaxTextLen}
    /\ field_mappings \in FillMappingLists
    /\ output_format \in {"docx", "html", "text", "HTML"}
    /\ docx_available \in IF LowerFormat(output_format) = "docx"
                          THEN BOOLEAN ELSE {TRUE}
    /\ filled_text = <<>>
    /\ filled_document = None
    /\ recap_data = NoRecap
    /\ structured_fields = <<>>
    /\ vectorizer = FALSE
    /\ similarities = NotCalled
    /\ recap_terms = <<>>
    /\ changes = <<>>
    /\ validation = None
    /\ statistics = None
    /\ DedupIdle

\* generate, line 92: filled_document = await self._fill_template(...)
FillTemplateStep ==
    /\ pc = "fill"
    /\ filled_text' = FillText(original_text, field_mappings).filled_text
    /\ filled_document' = FillTemplate(original_text, field_mappings,
                                       output_format, docx_available)
    /\ pc' = IF IsRaised(filled_document') THEN "error" ELSE "track"
    /\ UNCHANGED <<original_text, field_mappings, output_format, docx_available,
                   recap_data, structured_fields, vectorizer, similarities,
                   recap_terms, changes, validation, statistics, dedupVars, extractVars, uploadVars, requestVars,
                   docxVars>>

SpecFill == InitFill /\ [][FillTemplateStep]_vars

----------------------------------------------------------------------------
(* Properties of the substitution step *)

\* the overlap test of the specification: min(end_a,end_b) - max(start_a,start_b) > 0
Overlap(p, q) == Min(p[2], q[2]) - Max(p[1], q[1]) > 0

FilledIdx == {i \in 1..Len(field_mappings) : field_mappings[i].filled}

\* the filled mappings whose value is substituted
ReplacedIdx ==
    {i \in FilledIdx : field_mappings[i].mapped_term.value # <<>>}

\* the spans of the filled mappings are pairwise non-overlapping and lie
\* inside the original text
SpansWellFormed ==
    /\ \A i \in FilledIdx :
          /\ 0 <= field_mappings[i].field_position[1]
          /\ field_mappings[i].field_position[1] <= field_mappings[i].field_position[2]
          /\ field_mappings[i].field_position[2] <= Len(original_text)
    /\ \A i, j \in FilledIdx :
          i # j => ~Overlap(field_mappings[i].field_position,
                            field_mappings[j].field_position)

RECURSIVE SumOver(_, _)
SumOver(S, f) ==
    IF S = {} THEN 0
    ELSE LET x == CHOOSE y \in S : TRUE IN f[x] + SumOver(S \ {x}, f)

ReplacedSpanLength ==
    SumOver(ReplacedIdx, [i \in ReplacedIdx |->
        field_mappings[i].field_position[2] - field_mappings[i].field_position[1]])

ReplacedValueLength ==
    SumOver(ReplacedIdx, [i \in ReplacedIdx |->
        Len(field_mappings[i].mapped_term.value)])

\* the original text read left to right from offset pos: the value of a
\* replaced span where one starts, the original character elsewhere
RECURSIVE ExpectedFrom(_)
ExpectedFrom(pos) ==
    IF pos >= Len(original_text) THEN <<>>
    ELSE IF \E i \in ReplacedIdx : field_mappings[i].field_position[1] = pos
         THEN LET i == CHOOSE k \in ReplacedIdx :
                           field_mappings[k].field_position[1] = pos
              IN  field_mappings[i].mapped_term.value
                      \o ExpectedFrom(field_mappings[i].field_position[2])
         ELSE <<original_text[pos + 1]>> \o ExpectedFrom(pos + 1)

\* C1: when the spans of the filled mappings are pairwise non-overlapping
\* and inside the text, the filled text is as long as the original minus
\* the replaced spans plus the substituted values, and it is the original
\* text with each replaced span exchanged for its value, every other
\* character unchanged and in its original order.
C1_SpanSafety ==
    (pc = "track" /\ SpansWellFormed) =>
        /\ Len(filled_text) = Len(original_text) - ReplacedSpanLength
                                  + ReplacedValueLength
        /\ filled_text = ExpectedFrom(0)

\* two replacements, each changing the length of the text
C1_Witness ==
    /\ pc = "track"
    /\ SpansWellFormed
    /\ Cardinality(ReplacedIdx) = 2
    /\ Len(filled_text) # Len(original_text)
    /\ \E i \in ReplacedIdx : field_mappings[i].field_position[1] > 0

AscendingStarts(mods) ==
    \A i, j \in 1..Len(mods) : i < j => mods[i].position[1] <= mods[j].position[1]

DescendingStarts(mods) ==
    \A i, j \in 1..Len(mods) : i < j => mods[i].position[1] >= mods[j].position[1]

\* C9 as stated: the modifications of the filled document are ordered by
\* ascending original span start.
C9_AscendingModifications ==
    pc = "track" => AscendingStarts(filled_document.modifications)

\* C9 amended: the modifications of the filled document, in every output
\* format, are in the order in which the replacements were performed, that
\* is by descending original span start.
C9_DescendingModifications ==
    pc = "track" => DescendingStarts(filled_document.modifications)

\* two modifications at different span starts, in each output format
C9_Witness ==
    /\ pc = "track"
    /\ LowerFormat(output_format) = "html"
    /\ Len(filled_document.modifications) = 2
    /\ filled_document.modifications[1].position[1]
           > filled_document.modifications[2].position[1]

\* C10: for span lists as the field locator produces them (pairwise
\* non-overlapping, inside the text), there is exactly one modification per
\* filled mapping (the number counted as fields_filled), and the old_text of
\* each modification is the original text at its span.
C10_OneModificationPerFilled ==
    (pc = "track" /\ SpansWellFormed) =>
        /\ Len(filled_document.modifications) = Cardinality(FilledIdx)
        /\ \A k \in 1..Len(filled_document.modifications) :
              LET mod == filled_document.modifications[k]
              IN  mod.old_text = Slice(original_text, mod.position[1],
                                       mod.position[2])

\* the part of the HTML output between <div class="content"> and its
\* </div>: what _highlight_modifications_in_html returned
RenderedContent ==
    LET content == filled_document.content
        close   == CHOOSE k \in 6..Len(content) :
                       /\ content[k] = "</div>"
                       /\ \A j \in 6..(k - 1) : content[j] # "</div>"
    IN  SubSeq(content, 6, close - 1)

\* C18: for well-formed spans, the HTML output holds one marker per
\* modification, each marker encloses the new text of its modification, and
\* the rendered content without the markers is the filled text, whatever
\* the lengths of the substituted values are.
C18_MarkersExactlySubstitutions ==
    (pc = "track" /\ LowerFormat(output_format) = "html" /\ SpansWellFormed) =>
        LET rendered == RenderedContent
            opens    == {k \in 1..Len(rendered) :
                            rendered[k] = "<span class=\"modified\">"}
            mods     == SortedMods(filled_document.modifications)
        IN  /\ Cardinality(opens) = Len(mods)
            /\ \A i \in 1..Len(mods) :
                   \E k \in opens :
                       /\ Cardinality({j \in opens : j < k}) = i - 1
                       /\ SubSeq(rendered, k + 1, k + Len(mods[i].new_text))
                              = mods[i].new_text
                       /\ rendered[k + Len(mods[i].new_text) + 1] = "</span>"
            /\ SelectSeq(rendered,
                         LAMBDA e : e \notin {"<span class=\"modified\">",
                                              "</span>"})
                   = filled_text

----------------------------------------------------------------------------
(* The validator and the statistics on arbitrary lists of field mappings *)

\* a mapping is unfilled with confidence 0, or filled with a confidence
\* below or above the confidence threshold
ValidatedMappings ==
    {Mapping("field", type, <<0, 1>>, <<>>, t) :
        type \in {"vessel_name", "charterer", "owner", "cargo", "freight_rate"},
        t \in {None} \cup {MappedTerm(<<"X">>, c, "direct") : c \in {50, 80}}}

InitValidate ==
    /\ pc = "validate"
    /\ field_mappings \in UNION {[1..n -> ValidatedMappings] : n \in 0..MaxValidated}
    /\ original_text = <<>>
    /\ output_format = "text"
    /\ docx_available = TRUE
    /\ filled_text = <<>>
    /\ filled_document = [content |-> <<>>, format |-> "text", modifications |-> <<>>]
    /\ recap_data = NoRecap
    /\ structured_fields = <<>>
    /\ vectorizer = FALSE
    /\ similarities = NotCalled
    /\ recap_terms = <<>>
    /\ changes = <<>>
    /\ validation = None
    /\ statistics = None
    /\ DedupIdle

\* generate, line 98: validation_result = self._validate_generated_document(...)
ValidateStep ==
    /\ pc = "validate"
    /\ validation' = ValidateGeneratedDocument(filled_document, field_mappings)
    /\ pc' = "result"
    /\ UNCHANGED <<recap_data, structured_fields, original_text, output_format,
                   docx_available, vectorizer, similarities, recap_terms,
                   field_mappings, filled_text, filled_document, changes,
                   statistics, dedupVars, extractVars, uploadVars, requestVars,
                   docxVars>>

\* generate, lines 100-110: the statistics of the result
StatisticsStep ==
    /\ pc = "result"
    /\ statistics' = Statistics(field_mappings)
    /\ pc' = "done"
    /\ UNCHANGED <<recap_data, structured_fields, original_text, output_format,
                   docx_available, vectorizer, similarities, recap_terms,
                   field_mappings, filled_text, filled_document, changes,
                   validation, dedupVars, extractVars, uploadVars, requestVars,
                   docxVars>>

SpecValidate == InitValidate /\ [][ValidateStep \/ StatisticsStep]_vars

\* the sum of the confidences of the filled mappings
FilledConfidenceSum ==
    SumOver(FilledIdx, [i \in FilledIdx |-> field_mappings[i].confidence])

\* C5: the completeness score lies between 0 and 1, is the number of filled
\* mappings divided by the number of mappings when there is a mapping, and
\* is 0 when there is none.
C5_CompletenessBound ==
    pc \in {"result", "done"} =>
        LET score == validation.completeness_score
        IN  /\ score[2] > 0
            /\ 0 <= score[1]
            /\ score[1] <= score[2]
            /\ Len(field_mappings) > 0 =>
                   score[1] * Len(field_mappings) = Cardinality(FilledIdx) * score[2]
            /\ Len(field_mappings) = 0 => score[1] = 0

\* the critical field types that no filled mapping has
UnfilledCritical ==
    {field_type \in {"vessel_name", "charterer", "owner", "cargo"} :
        ~\E i \in FilledIdx : field_mappings[i].field_type = field_type}

\* C12: is_valid is true exactly when each of vessel_name, charterer, owner
\* and cargo has a filled mapping of its type; then there is no error;
\* otherwise there is exactly one error, which names every missing critical
\* field and no other, and is_valid is false whatever the warnings are.
C12_CriticalFieldValidation ==
    pc \in {"result", "done"} =>
        \A missing \in {UnfilledCritical} :
            /\ validation.is_valid = (missing = {})
            /\ missing = {} => validation.errors = <<>>
            /\ missing # {} =>
                   /\ Len(validation.errors) = 1
                   /\ Head(validation.errors[1]) = "Missing critical fields: "
                   /\ \A field_type \in {"vessel_name", "charterer", "owner", "cargo"} :
                          InSeq(field_type, validation.errors[1])
                              <=> field_type \in missing

\* the four critical fields filled with a low confidence: a valid document
\* that carries a warning
C12_Witness ==
    /\ pc = "result"
    /\ UnfilledCritical = {}
    /\ validation.is_valid
    /\ validation.errors = <<>>
    /\ validation.warnings # <<>>

\* some mappings filled and some not: a score strictly between 0 and 1
C5_Witness ==
    /\ pc = "result"
    /\ Cardinality(FilledIdx) = 2
    /\ Len(field_mappings) = 3
    /\ validation.completeness_score = <<2, 3>>

\* C6: the confidence score of the validator and that of the statistics
\* are both the mean of the confidence over exactly the filled mappings,
\* both 0 when no mapping is filled, hence equal.
C6_ConfidenceAggregation ==
    pc = "done" =>
        LET v == validation.confidence_score
            g == statistics.confidence_score
        IN  /\ v[2] > 0 /\ g[2] > 0
            /\ FilledIdx # {} =>
                   /\ v[1] * Cardinality(FilledIdx) = FilledConfidenceSum * v[2]
                   /\ g[1] * Cardinality(FilledIdx) = FilledConfidenceSum * g[2]
            /\ FilledIdx = {} => (v[1] = 0 /\ g[1] = 0)
            /\ v[1] * g[2] = g[1] * v[2]

\* filled mappings of different confidences next to an unfilled one
C6_Witness ==
    /\ pc = "done"
    /\ Cardinality(FilledIdx) = 2
    /\ Len(field_mappings) = 3
    /\ FilledConfidenceSum = 130
    /\ statistics.confidence_score = <<130, 2>>

----------------------------------------------------------------------------
(* CPGenerator.generate on the recap and template data of a request *)

\* the term types of the recaps of the model, in the order of
\* RecapParser.term_patterns, followed by a key no pattern produces
RegexTermTypes == <<"freight", "cargo", "vessel", "vessel_name">>

\* the regex matches stored for a term type
TermMatches(term_type) ==
    CASE term_type = "freight"   -> <<[value |-> <<"2", "5">>, confidence |-> 80,
                                       full_match |-> <<"f", " ", "2", "5">>,
                                       position |-> <<0, 4>>]>>
      [] term_type = "cargo"     -> <<[value |-> <<"o", "r", "e">>, confidence |-> 80,
                                       full_match |-> <<"c", " ", "o", "r", "e">>,
                                       position |-> <<5, 10>>]>>
      [] term_type = "vessel"    -> <<[value |-> <<"s", "t", "a", "r">>, confidence |-> 80,
                                       full_match |-> <<"v", " ", "s", "t", "a", "r">>,
                                       position |-> <<11, 17>>]>>
      [] OTHER                   -> <<[value |-> <<"s", "e", "a">>, confidence |-> 90,
                                       full_match |-> <<"n", " ", "s", "e", "a">>,
                                       position |-> <<25, 30>>]>>

\* the recap terms: at most MaxTerms term types, in declared order
RecapTermDicts ==
    {SelectSeq([i \in 1..Len(RegexTermTypes) |->
                   [key |-> RegexTermTypes[i], matches |-> TermMatches(RegexTermTypes[i])]],
               LAMBDA entry : entry.key \in chosen) :
        chosen \in {c \in SUBSET {RegexTermTypes[i] : i \in 1..Len(RegexTermTypes)} :
                       Cardinality(c) <= MaxTerms}}

\* the i-th structured field: the fields lie one character apart in the
\* template text
Field(i, type, context) ==
    [id |-> i, type |-> type, position |-> <<2 * (i - 1), 2 * i - 1>>,
     context |-> context]

\* the contexts of the fields are empty or one text; the similarities
\* depend on the context and the terms only, so one vector serves every field
FieldLists ==
    LET FieldTypes == {"vessel_name", "cargo", "freight_rate", "notice_time"}
        Contexts == {<<>>, <<"c", "t", "x">>}
    IN  UNION {{[i \in 1..n |-> Field(i, types[i], contexts[i])] :
                   types \in [1..n -> FieldTypes],
                   contexts \in [1..n -> Contexts]} :
               n \in 0..MaxFields}

\* the outcomes of fit_transform and cosine_similarity for a request:
\* _map_terms_to_fields reaches the vectorizer when there is one and some
\* field with a context has no direct mapping
SimilarityOutcomes(terms, fields, have_vectorizer) ==
    IF /\ have_vectorizer
       /\ \E i \in 1..Len(fields) :
             /\ FindDirectMapping(fields[i].type, terms) = None
             /\ fields[i].context # <<>>
    THEN {[raised |-> TRUE, values |-> <<>>]}
         \cup {[raised |-> FALSE, values |-> v] :
                  v \in [1..Len(terms) -> {30, 31, 60}]}
    ELSE {NotCalled}

Init ==
    /\ pc = "generate"
    /\ recap_data \in
           LET Entities ==
                   {[text |-> <<"N", "E", "R">>, label |-> label,
                     confidence |-> 70] :
                       label \in {"MONEY", "PRODUCT", "PERSON"}}
           IN  {[terms |-> t, entities |-> e] :
                   t \in RecapTermDicts,
                   e \in UNION {[1..n -> Entities] : n \in 0..MaxEntities}}
    /\ structured_fields \in FieldLists
    /\ original_text = SubSeq(Alphabet, 1, 2 * Len(structured_fields))
    /\ output_format \in {"text", "docx"}
    /\ docx_available \in IF output_format = "docx" THEN BOOLEAN ELSE {TRUE}
    /\ vectorizer \in BOOLEAN
    /\ similarities = NotCalled
    /\ recap_terms = <<>>
    /\ field_mappings = <<>>
    /\ filled_text = <<>>
    /\ filled_document = None
    /\ changes = <<>>
    /\ validation = None
    /\ statistics = None
    /\ DedupIdle

\* the stages of generate up to _fill_template, for one outcome of the
\* similarity computation: the locals of generate at line 92
FilledStages(sims) ==
    LET terms    == ExtractRecapTerms(recap_data)
        mappings == MapTermsToFields(terms, structured_fields, vectorizer, sims)
        \* the dictionary recap_terms as _map_terms_to_fields leaves it
        after    == MapTermsToFieldsObjects(terms, structured_fields,
                                            vectorizer, sims).objects
    IN  [recap_terms     |-> SubSeq(after, 1, Len(terms)),
         field_mappings  |-> mappings,
         filled_text     |-> FillText(original_text, mappings).filled_text,
         filled_document |-> FillTemplate(original_text, mappings,
                                          output_format, docx_available)]

\* the except clause of CPGenerator.generate: "logger.error(...); raise"
\* raises the exception it caught
GenerateExcept(error) == error

\* CPGenerator.generate returning its result
Generate ==
    /\ pc = "generate"
    /\ \E sims \in SimilarityOutcomes(ExtractRecapTerms(recap_data),
                                      structured_fields, vectorizer) :
         \E locals \in {FilledStages(sims)} :
             /\ ~IsRaised(locals.filled_document)
             /\ similarities' = sims
             /\ recap_terms' = locals.recap_terms
             /\ field_mappings' = locals.field_mappings
             /\ filled_text' = locals.filled_text
             /\ filled_document' = locals.filled_document
             /\ changes' = TrackChanges(locals.field_mappings, <<>>)
             /\ validation' = ValidateGeneratedDocument(locals.filled_document,
                                                        locals.field_mappings)
             /\ statistics' = Statistics(locals.field_mappings)
    /\ outcome' = [result |-> [filled_document |-> filled_document',
                               changes         |-> changes',
                               field_mappings  |-> field_mappings',
                               validation      |-> validation',
                               statistics      |-> statistics']]
    /\ pc' = "done"
    /\ UNCHANGED <<recap_data, structured_fields, original_text, output_format,
                   docx_available, vectorizer, dedupVars, extractVars,
                   uploadVars, request, documents_db, docxVars>>

\* CPGenerator.generate re-raising the exception of a stage (lines 115-117)
GenerateRaises ==
    /\ pc = "generate"
    /\ \E sims \in SimilarityOutcomes(ExtractRecapTerms(recap_data),
                                      structured_fields, vectorizer) :
         \E locals \in {FilledStages(sims)} :
             /\ IsRaised(locals.filled_document)
             /\ similarities' = sims
             /\ recap_terms' = locals.recap_terms
             /\ field_mappings' = locals.field_mappings
             /\ filled_text' = locals.filled_text
             /\ filled_document' = locals.filled_document
             /\ outcome' = GenerateExcept(locals.filled_document)
    /\ pc' = "error"
    /\ UNCHANGED <<recap_data, structured_fields, original_text, output_format,
                   docx_available, vectorizer, changes, validation, statistics,
                   dedupVars, extractVars, uploadVars, request, documents_db,
                   docxVars>>

Next == Generate \/ GenerateRaises

Spec == Init /\ [][Next]_vars

----------------------------------------------------------------------------
(* Properties of the mapper and of the validation of a generation *)

SameTerm(mapped_term, term) ==
    /\ mapped_term.value = term.value
    /\ mapped_term.confidence = term.confidence
    /\ mapped_term.original_match = term.original_match
    /\ mapped_term.source = term.source

\* C3: a field whose type is a key of the extracted terms is filled with
\* the term of that key and method 'direct', whatever alias or semantic
\* candidate there is.
C3_DirectPrecedence ==
    pc = "done" =>
        \A i \in 1..Len(field_mappings) :
            HasKey(recap_terms, field_mappings[i].field_type) =>
                /\ field_mappings[i].filled
                /\ field_mappings[i].mapping_method = "direct"
                /\ field_mappings[i].mapped_term.mapping_method = "direct"
                /\ SameTerm(field_mappings[i].mapped_term,
                            Get(recap_terms, field_mappings[i].field_type))
                /\ field_mappings[i].confidence
                       = Get(recap_terms, field_mappings[i].field_type).confidence

\* a vessel_name field with both a 'vessel_name' term and the alias term
\* 'vessel', in a request where the vectorizer returned accepted similarities
C3_Witness ==
    /\ pc = "done"
    /\ HasKey(recap_terms, "vessel_name")
    /\ HasKey(recap_terms, "vessel")
    /\ similarities.values = <<60, 60>>
    /\ \E i \in 1..Len(field_mappings) :
          /\ field_mappings[i].field_type = "vessel_name"
          /\ field_mappings[i].field_context # <<>>
          /\ field_mappings[i].mapping_method = "direct"

NoVesselTerm == ~HasKey(recap_terms, "vessel") /\ ~HasKey(recap_terms, "vessel_name")

\* C4: when the extracted terms hold neither 'vessel' nor 'vessel_name',
\* the validation is not valid and its error message names vessel_name.
C4_MissingVesselFlag ==
    (pc = "done" /\ NoVesselTerm) =>
        /\ validation.is_valid = FALSE
        /\ \E k \in 1..Len(validation.errors) :
               InSeq("vessel_name", validation.errors[k])

\* the mapped terms that a call of _map_terms_to_fields on these terms hands
\* out, read from the objects as the call leaves them
MappedTermsOf(terms) ==
    LET call == MapTermsToFieldsObjects(terms, structured_fields, vectorizer,
                                        similarities)
    IN  [j \in 1..Len(call.refs) |->
            IF call.refs[j] = 0 THEN None
            ELSE [k \in DOMAIN call.objects[call.refs[j]] \ {"key"} |->
                     call.objects[call.refs[j]][k]]]

\* C11: after _map_terms_to_fields the recap terms are what
\* _extract_recap_terms returned (same keys, no entry with a
\* 'mapping_method' or a 'similarity_score'), the mapped terms of the stored
\* mappings are the objects the call handed out, and a second call on the
\* terms as the first call left them yields the same mapping list.
C11_MappingLeavesTerms ==
    pc = "done" =>
        /\ recap_terms = ExtractRecapTerms(recap_data)
        /\ \A i \in 1..Len(recap_terms) :
              DOMAIN recap_terms[i] \cap {"mapping_method", "similarity_score"} = {}
        /\ [j \in 1..Len(field_mappings) |-> field_mappings[j].mapped_term]
               = MappedTermsOf(ExtractRecapTerms(recap_data))
        /\ MappedTermsOf(recap_terms) = MappedTermsOf(ExtractRecapTerms(recap_data))
        /\ MapTermsToFields(recap_terms, structured_fields, vectorizer,
                            similarities) = field_mappings

\* a request in which one field was filled from a copy of a term by the
\* direct or the alias path and another by the semantic path
C11_Witness ==
    /\ pc = "done"
    /\ Len(field_mappings) = 2
    /\ field_mappings[1].mapping_method \in {"direct", "mapped"}
    /\ field_mappings[2].mapping_method = "semantic"
    /\ \E i \in 1..Len(recap_terms) :
          /\ recap_terms[i].value = field_mappings[2].mapped_term.value
          /\ "similarity_score" \notin DOMAIN recap_terms[i]

\* the entries of term_mappings whose term type is a key of the terms and
\* whose alias list holds the field type
AliasEntries(field_type) ==
    {k \in 1..Len(term_mappings) :
        /\ InSeq(field_type, term_mappings[k].types)
        /\ HasKey(recap_terms, term_mappings[k].key)}

\* the fields with an alias match and no exact match
AliasMatched ==
    {i \in 1..Len(field_mappings) :
        /\ ~HasKey(recap_terms, field_mappings[i].field_type)
        /\ AliasEntries(field_mappings[i].field_type) # {}}

\* C19: a field whose type is not a key of the terms but is in the alias
\* list of a term type that is a key is filled with a copy of the term of
\* the first such term type, with the method 'mapped' and the confidence of
\* the term; the result carries no similarity score, and when every field
\* has an exact or an alias match the vectorizer is not called.
C19_AliasMatch ==
    pc = "done" =>
        /\ \A i \in AliasMatched :
              LET entries == AliasEntries(field_mappings[i].field_type)
                  first   == CHOOSE k \in entries : \A j \in entries : k <= j
                  term    == Get(recap_terms, term_mappings[first].key)
              IN  /\ field_mappings[i].filled
                  /\ field_mappings[i].mapping_method = "mapped"
                  /\ field_mappings[i].mapped_term.mapping_method = "mapped"
                  /\ SameTerm(field_mappings[i].mapped_term, term)
                  /\ field_mappings[i].confidence = term.confidence
                  /\ "similarity_score" \notin DOMAIN field_mappings[i].mapped_term
        /\ (\A i \in 1..Len(field_mappings) :
                HasKey(recap_terms, field_mappings[i].field_type)
                    \/ i \in AliasMatched)
               => similarities = NotCalled

\* the terms of regex extraction that can fill a field of the type: their
\* term type is the field type or has it in its alias list
RegexTermsFor(field_type) ==
    {k \in 1..Len(recap_terms) :
        /\ recap_terms[k].source = "regex_extraction"
        /\ \/ recap_terms[k].key = field_type
           \/ \E e \in 1..Len(term_mappings) :
                  /\ term_mappings[e].key = recap_terms[k].key
                  /\ InSeq(field_type, term_mappings[e].types)}

\* C27: a field that a term of regex extraction can fill, directly or
\* through the alias table, is filled with a term of regex extraction and
\* not with an NER entity
C27_RegexBeforeNer ==
    pc = "done" =>
        \A i \in 1..Len(field_mappings) :
            RegexTermsFor(field_mappings[i].field_type) # {}
                => /\ field_mappings[i].filled
                   /\ field_mappings[i].mapped_term.source = "regex_extraction"

\* the recap has the regex term 'freight' and a MONEY entity; the
\* freight_rate field is filled with the entity
C27_FilledFromEntity ==
    /\ pc = "done"
    /\ HasKey(recap_terms, "freight")
    /\ Get(recap_terms, "freight").source = "regex_extraction"
    /\ \E i \in 1..Len(field_mappings) :
          /\ field_mappings[i].field_type = "freight_rate"
          /\ field_mappings[i].filled
          /\ field_mappings[i].mapping_method = "direct"
          /\ field_mappings[i].mapped_term.source = "nlp_extraction"
          /\ field_mappings[i].mapped_term.value = <<"N", "E", "R">>

\* a freight_rate field with a context, a 'freight' term and no
\* 'freight_rate' term, in a request with a vectorizer, next to a field that
\* the semantic search filled
C19_Witness ==
    /\ pc = "done"
    /\ vectorizer
    /\ HasKey(recap_terms, "freight")
    /\ ~HasKey(recap_terms, "freight_rate")
    /\ Len(field_mappings) = 2
    /\ field_mappings[1].field_type = "freight_rate"
    /\ field_mappings[1].field_context # <<>>
    /\ field_mappings[1].mapping_method = "mapped"
    /\ field_mappings[2].mapping_method = "semantic"

\* the fields with neither an exact nor an alias match
Unmatched ==
    {i \in 1..Len(field_mappings) :
        /\ ~HasKey(recap_terms, field_mappings[i].field_type)
        /\ AliasEntries(field_mappings[i].field_type) = {}}

\* the terms, by their place in the iteration order, whose similarity is
\* above 0.3
Accepted ==
    {k \in 1..Len(similarities.values) : similarities.values[k] > 30}

\* C20: a field with neither an exact nor an alias match is filled, when it
\* has a context, the vectorizer is there and some similarity is above 0.3,
\* with a copy of the first term of the highest similarity above 0.3, by
\* the method 'semantic'; otherwise (no similarity above 0.3, exactly 0.3
\* included, no context, no vectorizer, or the vectorizer raised) it is
\* unfilled with no mapped term, the method 'none' and the confidence 0;
\* generate fails for no other reason than a missing python-docx.
C20_SemanticFallback ==
    /\ pc = "done" =>
          \A i \in Unmatched :
              IF /\ vectorizer
                 /\ field_mappings[i].field_context # <<>>
                 /\ Accepted # {}
              THEN LET v    == similarities.values
                       best == CHOOSE k \in Accepted :
                                   \A j \in Accepted :
                                       v[k] > v[j] \/ (v[k] = v[j] /\ k <= j)
                   IN  /\ field_mappings[i].filled
                       /\ field_mappings[i].mapping_method = "semantic"
                       /\ SameTerm(field_mappings[i].mapped_term,
                                   recap_terms[best])
                       /\ field_mappings[i].mapped_term.similarity_score = v[best]
                       /\ field_mappings[i].confidence
                              = recap_terms[best].confidence
              ELSE /\ ~field_mappings[i].filled
                   /\ field_mappings[i].mapped_term = None
                   /\ field_mappings[i].mapping_method = "none"
                   /\ field_mappings[i].confidence = 0
    /\ pc = "error" => (output_format = "docx" /\ ~docx_available)

\* two terms of which the first has the similarity 0.3 exactly and the
\* second 0.31: the second is chosen for a field, and a field without a
\* context stays unfilled
C20_Witness ==
    /\ pc = "done"
    /\ similarities.values = <<30, 31>>
    /\ Unmatched = {1, 2}
    /\ field_mappings[1].mapping_method = "semantic"
    /\ field_mappings[1].mapped_term.value = recap_terms[2].value
    /\ field_mappings[1].mapped_term.value # recap_terms[1].value
    /\ field_mappings[2].field_context = <<>>
    /\ field_mappings[2].mapping_method = "none"

\* C15: when a stage of CPGenerator.generate fails, generate returns no
\* result and raises one wrapping error: an Exception, the type
\* DocumentProcessor.generate_charter_party wraps with, whose message is a
\* prefix followed by the message of the stage's error.
C15_WrappedGenerationError ==
    pc = "error" =>
        /\ IsRaised(outcome)
        /\ outcome.raised = "Exception"
        /\ Len(outcome.message) > Len(filled_document.message)
        /\ SliceFrom(outcome.message,
                     Len(outcome.message) - Len(filled_document.message))
               = filled_document.message

----------------------------------------------------------------------------
(* RecapParser._deduplicate_matches *)

\* min(end, end') - max(start, start') of two candidate matches
OverlapLength(match, existing) ==
    Min(match.position[2], existing.position[2])
        - Max(match.position[1], existing.position[1])

\* the inner loop testing the candidate against the last kept match only
IsDuplicateOfLast(match, kept) ==
    /\ kept # <<>>
    /\ OverlapLength(match, kept[Len(kept)]) > 0

\* the inner loop: is_duplicate is set when the candidate overlaps a match
\* that is already kept
IsDuplicate(match, kept) ==
    \E k \in 1..Len(kept) : OverlapLength(match, kept[k]) > 0

\* the outer loop over the sorted candidates
RECURSIVE KeepLoop(_, _)
KeepLoop(kept, sorted) ==
    IF sorted = <<>> THEN kept
    ELSE KeepLoop(IF IsDuplicate(Head(sorted), kept)
                  THEN kept
                  ELSE Append(kept, Head(sorted)),
                  Tail(sorted))

\* matches.sort(key=lambda x: (x['confidence'], -x['position'][0]),
\*              reverse=True)
SortMatches(ms) ==
    Permute(ms, SortPermReverse([i \in 1..Len(ms) |->
                                    <<ms[i].confidence, 0 - ms[i].position[1]>>]))

DeduplicateMatches(ms) ==
    IF ms = <<>> THEN <<>> ELSE KeepLoop(<<>>, SortMatches(ms))

\* candidate matches of one pattern family: regex matches are non-empty
\* spans, the value tells the candidates of a list apart
MatchList(n, c, p) ==
    [i \in 1..n |->
        [value |-> <<Digit(i)>>, full_match |-> <<"m", Digit(i)>>,
         confidence |-> c[i], position |-> p[i]]]

GenIdle ==
    /\ recap_data = NoRecap
    /\ structured_fields = <<>>
    /\ original_text = <<>>
    /\ output_format = "text"
    /\ docx_available = TRUE
    /\ vectorizer = FALSE
    /\ similarities = NotCalled
    /\ recap_terms = <<>>
    /\ field_mappings = <<>>
    /\ filled_text = <<>>
    /\ filled_document = None
    /\ changes = <<>>
    /\ validation = None
    /\ statistics = None

InitDedup ==
    /\ pc = "dedup"
    /\ \E n \in 0..MaxMatches :
          \E c \in [1..n -> {80, 90}],
             p \in [1..n -> {sp \in (0..MaxPos) \X (1..(MaxPos + 1)) :
                                 sp[1] < sp[2]}] :
              matches = MatchList(n, c, p)
    /\ unique_matches = <<>>
    /\ rerun_matches = <<>>
    /\ GenIdle
    /\ ExtractIdle

\* one call; the sort is in place, so the caller's list is reordered
DeduplicateStep ==
    /\ pc = "dedup"
    /\ matches' = SortMatches(matches)
    /\ unique_matches' = DeduplicateMatches(matches)
    /\ pc' = "deduped"
    /\ UNCHANGED <<rerun_matches, genVars, extractVars, uploadVars, requestVars,
                   docxVars>>

\* a second call on the list the first call returned
DeduplicateAgain ==
    /\ pc = "deduped"
    /\ unique_matches' = SortMatches(unique_matches)
    /\ rerun_matches' = DeduplicateMatches(unique_matches)
    /\ pc' = "rerun"
    /\ UNCHANGED <<matches, genVars, extractVars, uploadVars, requestVars, docxVars>>

\* RecapParser._extract_terms stores the deduplicated list of a term type
\* that has matches ("if matches: terms[term_type] = unique_matches"), and
\* CPGenerator._extract_recap_terms reads it from recap_data["terms"]; the
\* NLP analysis found at most MaxRecapEntities entities, the i-th with the
\* text "e<i>"
ExtractRecapTermsStep ==
    /\ pc = "deduped"
    /\ \E n \in 0..MaxRecapEntities :
           \E labels \in [1..n -> {"MONEY", "PRODUCT", "PERSON"}] :
               recap_data' =
                   [terms    |-> IF matches = <<>> THEN <<>>
                                 ELSE <<[key     |-> "cargo",
                                         matches |-> unique_matches]>>,
                    entities |-> [i \in 1..n |->
                                     [text       |-> <<"e", Digit(i)>>,
                                      label      |-> labels[i],
                                      confidence |-> 80]]]
    /\ recap_terms' = ExtractRecapTerms(recap_data')
    /\ pc' = "terms"
    /\ UNCHANGED <<structured_fields, original_text, output_format,
                   docx_available, vectorizer, similarities, field_mappings,
                   filled_text, filled_document, changes, validation,
                   statistics, dedupVars, extractVars, uploadVars, requestVars,
                   docxVars>>

SpecDedup ==
    InitDedup
        /\ [][DeduplicateStep \/ DeduplicateAgain \/ ExtractRecapTermsStep]_vars

\* the candidate ranks no lower than any candidate of the list: highest
\* confidence, then earliest start
RankedFirst(m, ms) ==
    \A k \in 1..Len(ms) :
        \/ ms[k].confidence < m.confidence
        \/ ms[k].confidence = m.confidence /\ ms[k].position[1] >= m.position[1]

NoTwoOverlap(ms) ==
    \A i, j \in 1..Len(ms) :
        i # j => ~ Overlap(ms[i].position, ms[j].position)

\* C7: the list returned by _deduplicate_matches has no two overlapping
\* spans, starts with a candidate of the highest confidence and, among
\* those, the earliest start, and is returned unchanged, in the same order,
\* when the function is applied to it again
C7_IdempotentDedup ==
    /\ pc \in {"deduped", "rerun"} =>
          /\ NoTwoOverlap(unique_matches)
          /\ matches # <<>> =>
                /\ unique_matches # <<>>
                /\ RankedFirst(unique_matches[1], matches)
    /\ pc = "rerun" =>
          /\ rerun_matches = unique_matches
          /\ NoTwoOverlap(rerun_matches)

\* three candidates where the lowest ranked overlaps only the first kept
\* one, deduplicated twice
C7_Witness ==
    /\ pc = "rerun"
    /\ Len(matches) = 3
    /\ Len(unique_matches) = 2
    /\ Overlap(matches[3].position, matches[1].position)
    /\ ~ Overlap(matches[3].position, matches[2].position)
    /\ rerun_matches = unique_matches

\* C21: for a term type with at least one regex candidate, the term that
\* _extract_recap_terms hands to the mapper is the first element of the
\* deduplicated list, and that element has the highest confidence of all
\* the candidates and, among those of that confidence, the smallest start.
C21_CanonicalTerm ==
    (pc = "terms" /\ matches # <<>>) =>
        /\ Len(recap_terms) >= 1
        /\ recap_terms[1].key = "cargo"
        /\ \A k \in 2..Len(recap_terms) : recap_terms[k].key # "cargo"
        /\ recap_terms[1].value = unique_matches[1].value
        /\ recap_terms[1].confidence = unique_matches[1].confidence
        /\ recap_terms[1].original_match = unique_matches[1].full_match
        /\ recap_terms[1].source = "regex_extraction"
        /\ RankedFirst(unique_matches[1], matches)

\* three candidates kept, two of them of the highest confidence; the one
\* handed on is the one that starts first
C21_Witness ==
    /\ pc = "terms"
    /\ Len(unique_matches) = 3
    /\ unique_matches[1].confidence = 90
    /\ unique_matches[2].confidence = 90
    /\ unique_matches[3].confidence = 80
    /\ unique_matches[3].position[1] < unique_matches[1].position[1]
    /\ recap_terms[1].value = unique_matches[1].value

\* the term type of the fixed table of _map_entity_to_term_type for a label
EntityTable(label) ==
    CASE label = "ORG"     -> "charterer"
      [] label = "GPE"     -> "load_port"
      [] label = "MONEY"   -> "freight_rate"
      [] label = "DATE"    -> "laycan_start"
      [] label = "PRODUCT" -> "cargo"
      [] OTHER             -> "no term type"

\* C24: a term obtained from the regex matches is in the result unchanged;
\* a term of source "nlp_extraction" has a term type that no regex term has
\* and carries the text of the first entity, in input order, whose label the
\* fixed table maps to that term type
C24_NerNeverOverrides ==
    pc = "terms" =>
        \A regex \in {RegexTerms(recap_data.terms)} :
            /\ SubSeq(recap_terms, 1, Len(regex)) = regex
            /\ \A k \in (Len(regex) + 1)..Len(recap_terms) :
                   /\ recap_terms[k].source = "nlp_extraction"
                   /\ ~ HasKey(regex, recap_terms[k].key)
                   /\ \A h \in 1..Len(recap_terms) :
                          recap_terms[h].key = recap_terms[k].key => h = k
                   /\ \E i \in 1..Len(recap_data.entities) :
                          /\ EntityTable(recap_data.entities[i].label)
                                 = recap_terms[k].key
                          /\ recap_terms[k].value = recap_data.entities[i].text
                          /\ \A j \in 1..(i - 1) :
                                 EntityTable(recap_data.entities[j].label)
                                     # recap_terms[k].key

\* the recap has a regex term "cargo" and two entities that map to "cargo"
\* and to "freight_rate" twice over: the regex term stayed and the first
\* MONEY entity became the freight rate
C24_Witness ==
    /\ pc = "terms"
    /\ Len(recap_data.terms) = 1
    /\ Len(recap_data.entities) = 2
    /\ \E i \in 1..2 : recap_data.entities[i].label = "PRODUCT"
    /\ Get(recap_terms, "cargo").source = "regex_extraction"

\* two MONEY entities: the first is the freight rate
C24_WitnessFirstKept ==
    /\ pc = "terms"
    /\ Len(recap_data.entities) = 2
    /\ \A i \in 1..2 : recap_data.entities[i].label = "MONEY"
    /\ Get(recap_terms, "freight_rate").value = <<"e", "1">>

----------------------------------------------------------------------------
(* Text extraction: RecapParser._extract_text, TemplateParser._extract_text
   and DocumentProcessor.extract_text_from_file *)

Raise(type, message) == [raised |-> type, message |-> message]

Return(text) == [text |-> text]

\* Path(file_path).suffix.lower() on the suffixes of the model
LowerExt(ext) ==
    CASE ext = ".PDF" -> ".pdf"
      [] ext = ".TXT" -> ".txt"
      [] OTHER -> ext

Whitespace == {" ", "\n", "\t"}

\* str.strip(): the text from its first to its last character that is
\* not whitespace
Strip(t) ==
    LET kept == {i \in 1..Len(t) : t[i] \notin Whitespace}
    IN  IF kept = {} THEN <<>>
        ELSE SubSeq(t, CHOOSE i \in kept : \A j \in kept : i <= j,
                       CHOOSE i \in kept : \A j \in kept : i >= j)

\* with open(file_path, 'r', encoding='utf-8') as file: return file.read()
ExtractFromTxt(f) ==
    IF f.readable
    THEN [result |-> Return(f.content), reads |-> 1]
    ELSE [result |-> Raise("FileNotFoundError", <<f.ext>>), reads |-> 1]

\* the pdfplumber loop: page texts that are None or empty are skipped, the
\* others are appended with a newline; the backend raises when it opens the
\* file (fails_at = 0) or when it extracts page fails_at
RECURSIVE PlumberLoop(_, _, _)
PlumberLoop(text, f, i) ==
    IF f.plumber_fails_at = 0 \/ f.plumber_fails_at = i
    THEN [text |-> text, raised |-> TRUE]
    ELSE IF i > Len(f.plumber_pages)
    THEN [text |-> text, raised |-> FALSE]
    ELSE PlumberLoop(IF f.plumber_pages[i] # <<>>
                     THEN text \o f.plumber_pages[i] \o <<"\n">>
                     ELSE text,
                     f, i + 1)

\* the PyPDF2 loop: every page's text is appended with a newline
RECURSIVE PyPDF2Loop(_, _, _)
PyPDF2Loop(text, f, i) ==
    IF f.pypdf_fails_at = 0 \/ f.pypdf_fails_at = i
    THEN [text |-> text, raised |-> TRUE]
    ELSE IF i > Len(f.pypdf_pages)
    THEN [text |-> text, raised |-> FALSE]
    ELSE PyPDF2Loop(text \o f.pypdf_pages[i] \o <<"\n">>, f, i + 1)

\* RecapParser._extract_from_pdf and TemplateParser._extract_from_pdf
ExtractFromPdf(f, have_libs) ==
    LET first == IF have_libs
                 THEN PlumberLoop(<<>>, f, 1)
                 ELSE [text |-> <<>>, raised |-> FALSE]
        second == PyPDF2Loop(first.text, f, 1)
    IN  IF have_libs /\ ~ first.raised /\ Strip(first.text) # <<>>
        THEN [result |-> Return(first.text), reads |-> 1]
        ELSE IF have_libs
        THEN IF second.raised
             THEN [result |-> Raise("PdfReadError", <<f.ext>>), reads |-> 2]
             ELSE [result |-> Return(second.text), reads |-> 2]
        ELSE [result |-> Raise("ImportError",
                               <<"No PDF processing library available">>),
              reads |-> 0]

RECURSIVE ParagraphsText(_)
ParagraphsText(paragraphs) ==
    IF paragraphs = <<>> THEN <<>>
    ELSE Head(paragraphs) \o <<"\n">> \o ParagraphsText(Tail(paragraphs))

\* RecapParser._extract_from_docx and TemplateParser._extract_from_docx: the
\* paragraphs, then of every table the cells of a row, each followed by a
\* tab, and the rows, each followed by a newline
ExtractFromDocx(f, have_libs) ==
    LET RECURSIVE RowText(_)
        RowText(row) ==
            IF row = <<>> THEN <<>>
            ELSE Head(row) \o <<"\t">> \o RowText(Tail(row))
        RECURSIVE TableText(_)
        TableText(rows) ==
            IF rows = <<>> THEN <<>>
            ELSE RowText(Head(rows)) \o <<"\n">> \o TableText(Tail(rows))
        RECURSIVE TablesText(_)
        TablesText(tables) ==
            IF tables = <<>> THEN <<>>
            ELSE TableText(Head(tables)) \o TablesText(Tail(tables))
    IN
    IF ~ have_libs
    THEN [result |-> Raise("ImportError",
                           <<"python-docx library not available">>),
          reads |-> 0]
    ELSE IF ~ f.readable
    THEN [result |-> Raise("PackageNotFoundError", <<f.ext>>), reads |-> 1]
    ELSE [result |-> Return(ParagraphsText(f.paragraphs)
                                \o TablesText(f.tables)),
          reads |-> 1]

\* RecapParser._extract_text and TemplateParser._extract_text: the except
\* clause logs and re-raises
ExtractText(f, have_libs) ==
    LET file_ext == LowerExt(f.ext)
    IN  IF file_ext = ".txt" THEN ExtractFromTxt(f)
        ELSE IF file_ext = ".pdf" THEN ExtractFromPdf(f, have_libs)
        ELSE IF file_ext \in {".docx", ".doc"} THEN ExtractFromDocx(f, have_libs)
        ELSE [result |-> Raise("ValueError",
                               <<"Unsupported file format: ", file_ext>>),
              reads |-> 0]

\* DocumentProcessor._extract_pdf_text: PyPDF2 is tried only when pdfplumber
\* raises, and its failure is printed, not raised
ExtractPdfText(f) ==
    LET first == PlumberLoop(<<>>, f, 1)
        second == PyPDF2Loop(first.text, f, 1)
    IN  IF first.raised
        THEN [result |-> Return(second.text), reads |-> 2]
        ELSE [result |-> Return(first.text), reads |-> 1]

\* DocumentProcessor.extract_text_from_file: attempt is what its try block
\* does (_extract_docx_text is docx2txt.process, "" when it raises), the
\* except clause prints the error and returns ""
ExtractTextFromFile(f) ==
    LET file_ext == LowerExt(f.ext)
        ExtractDocxText ==
            IF f.readable
            THEN [result |-> Return(f.docx2txt), reads |-> 1]
            ELSE [result |-> Return(<<>>), reads |-> 1]
        attempt ==
            IF file_ext = ".pdf" THEN ExtractPdfText(f)
            ELSE IF file_ext \in {".docx", ".doc"} THEN ExtractDocxText
            ELSE IF file_ext = ".txt" THEN ExtractFromTxt(f)
            ELSE [result |-> Raise("ValueError",
                                   <<"Unsupported file type: ", file_ext>>),
                  reads |-> 0]
    IN  IF IsRaised(attempt.result)
        THEN [result |-> Return(<<>>), reads |-> attempt.reads]
        ELSE attempt

\* the text of page i of a PDF file
PageText(i) == <<"p", Digit(i)>>

\* a PDF file: what each backend extracts from each of its n pages, and the
\* page at which each backend raises (-1: it does not)
PdfFile(ext, n, seen, read, plumber_fails_at, pypdf_fails_at) ==
    [ext |-> ext,
     plumber_pages |-> [i \in 1..n |-> IF seen[i] = "text" THEN PageText(i)
                                       ELSE IF seen[i] = "blank" THEN <<" ">>
                                       ELSE <<>>],
     pypdf_pages |-> [i \in 1..n |-> IF read[i] THEN PageText(i) ELSE <<>>],
     plumber_fails_at |-> plumber_fails_at,
     pypdf_fails_at |-> pypdf_fails_at]

SupportedExtensions == {".txt", ".pdf", ".docx", ".doc"}

InitExtract ==
    /\ pc = "extract"
    /\ \/ file \in [ext : {".txt", ".TXT"}, readable : BOOLEAN,
                     content : {<<>>, <<"t", "\n">>}]
       \* documents of empty and non-empty paragraphs, with or without a
       \* table of one row and two cells
       \/ \E n \in 0..MaxParagraphs :
              file \in [ext : {".docx", ".doc"}, readable : BOOLEAN,
                        paragraphs : [1..n -> {<<>>, <<"a">>}],
                        tables : {<<>>, << << << <<"c">>, <<"d">> >> >> >>},
                        docx2txt : {<<>>, <<"a">>}]
       \/ file \in [ext : {".xyz", ".rtf", ""}, readable : BOOLEAN]
       \/ \E ext \in {".pdf", ".PDF"}, n \in 0..MaxPages :
              \E seen \in [1..n -> {"text", "blank", "none"}],
                 read \in [1..n -> BOOLEAN],
                 plumber_fails_at, pypdf_fails_at \in (-1)..n :
                  file = PdfFile(ext, n, seen, read,
                                 plumber_fails_at, pypdf_fails_at)
    /\ libs_available \in BOOLEAN
    /\ extraction = None
    /\ file_reads = 0
    /\ matches = <<>> /\ unique_matches = <<>> /\ rerun_matches = <<>>
    /\ GenIdle
    /\ UploadIdle

RecapExtractText ==
    /\ pc = "extract"
    /\ \E attempt \in {ExtractText(file, libs_available)} :
          /\ extraction' = attempt.result
          /\ file_reads' = attempt.reads
    /\ pc' = "recap_extracted"
    /\ UNCHANGED <<file, libs_available, genVars, dedupVars, uploadVars, requestVars,
                   docxVars>>

TemplateExtractText ==
    /\ pc = "extract"
    /\ \E attempt \in {ExtractText(file, libs_available)} :
          /\ extraction' = attempt.result
          /\ file_reads' = attempt.reads
    /\ pc' = "template_extracted"
    /\ UNCHANGED <<file, libs_available, genVars, dedupVars, uploadVars, requestVars,
                   docxVars>>

\* document_processor imports its libraries unguarded
ProcessorExtractTextFromFile ==
    /\ pc = "extract"
    /\ \E attempt \in {ExtractTextFromFile(file)} :
          /\ extraction' = attempt.result
          /\ file_reads' = attempt.reads
    /\ pc' = "processor_extracted"
    /\ UNCHANGED <<file, libs_available, genVars, dedupVars, uploadVars, requestVars,
                   docxVars>>

\* RecapParser.parse after _extract_text (lines 116-118, 140-142): an
\* exception is logged and raised again, "if not text" raises for the empty
\* text, any other text goes on to the term extraction
RecapParse ==
    /\ pc = "recap_extracted"
    /\ extraction' =
          IF ~IsRaised(extraction) /\ extraction.text = <<>>
          THEN Raise("ValueError", <<"No text could be extracted from the file">>)
          ELSE extraction
    /\ pc' = "recap_parsed"
    /\ UNCHANGED <<file, libs_available, file_reads, genVars, dedupVars,
                   uploadVars, requestVars, docxVars>>

\* upload_template of simple_app for a file name with the suffix: the
\* suffix of the stored path, or the HTTPException for a suffix that is not
\* allowed
SimpleAppUploadTemplate(suffix) ==
    LET allowed_types == {".pdf", ".doc", ".docx"}
        file_ext == LowerExt(suffix)
    IN  IF file_ext \notin allowed_types
        THEN Raise("HTTPException",
                   <<"Invalid file type. Please upload PDF, DOC, or DOCX files.">>)
        ELSE [path_ext |-> file_ext]

\* DocumentProcessor.load_cp_template on a path with the suffix: a .docx file
\* is opened with Document(file_path), which raises or not, the text of a
\* .pdf or .txt file is put into a new document, any other suffix raises
LoadCpTemplate(suffix, opens) ==
    LET file_ext == LowerExt(suffix)
    IN  IF file_ext = ".docx"
        THEN IF opens THEN [doc |-> "Document"]
             ELSE Raise("PackageNotFoundError", <<"Package not found">>)
        ELSE IF file_ext \in {".pdf", ".txt"} THEN [doc |-> "Document"]
        ELSE Raise("ValueError", <<"Unsupported template format: ", file_ext>>)

\* DocumentProcessor.generate_charter_party on the text that
\* parse_recap_document got from extract_text_from_file: parse_recap_document
\* returns {} for the empty text and the fields its patterns find
\* otherwise; load_cp_template raises or not, updated_doc.save raises or
\* not; every exception is wrapped in one Exception
GenerateCharterParty(text, extracted_data, template_doc, save_succeeds) ==
    LET parsed_recap == IF text = <<>> THEN <<>> ELSE extracted_data
    IN  IF IsRaised(template_doc)
        THEN Raise("Exception", <<"Charter Party generation failed: ">>
                                    \o template_doc.message)
        ELSE IF ~save_succeeds
        THEN Raise("Exception", <<"Charter Party generation failed: ",
                                  "Permission denied">>)
        ELSE [result |->
                [output_path   |-> "output_path",
                 change_report |->
                    [extracted_terms  |-> parsed_recap,
                     mapped_fields    |-> Len(parsed_recap),
                     confidence_score |-> 85]]]

\* the rest of DocumentProcessor.generate_charter_party after the text
\* extraction of its recap, as generate_charter_party of simple_app calls
\* it: on the stored path of a template that upload_template accepted
ProcessorGenerateCharterParty ==
    /\ pc = "processor_extracted"
    /\ \E suffix \in {".PDF", ".doc", ".docx", ".txt"},
          opens, save_succeeds \in BOOLEAN,
          extracted_data \in {<<>>, <<[key |-> "vessel_name", value |-> <<"X">>]>>} :
          \E template_info \in {SimpleAppUploadTemplate(suffix)} :
              /\ ~ IsRaised(template_info)
              /\ template_info.path_ext # ".docx" => opens
              /\ request' = [template_path_ext |-> template_info.path_ext,
                             template_opens    |-> opens,
                             save_succeeds     |-> save_succeeds]
              /\ outcome' =
                     GenerateCharterParty(
                         extraction.text, extracted_data,
                         LoadCpTemplate(template_info.path_ext, opens),
                         save_succeeds)
    /\ pc' = "processor_generated"
    /\ UNCHANGED <<extractVars, genVars, dedupVars, uploadVars, documents_db,
                   docxVars>>

SpecExtract ==
    InitExtract
        /\ [][\/ RecapExtractText
              \/ TemplateExtractText
              \/ ProcessorExtractTextFromFile
              \/ RecapParse
              \/ ProcessorGenerateCharterParty]_vars

Extracted == pc \in {"recap_extracted", "template_extracted", "processor_extracted"}

\* C8: every text-extraction entry point ends, for a file whose extension is
\* outside {.txt, .pdf, .docx, .doc}, in an unsupported-format error that the
\* caller sees, without having opened the file
C8_UnsupportedFormatRejected ==
    (Extracted /\ LowerExt(file.ext) \notin SupportedExtensions) =>
        /\ IsRaised(extraction)
        /\ extraction.raised = "ValueError"
        /\ extraction.message[1] \in {"Unsupported file format: ",
                                      "Unsupported file type: "}
        /\ file_reads = 0

\* the file is a PDF for which pdfplumber raises or yields no text and
\* PyPDF2 raises or yields no text for any page
NoTextInPdf ==
    /\ LowerExt(file.ext) = ".pdf"
    /\ \/ PlumberLoop(<<>>, file, 1).raised
       \/ PlumberLoop(<<>>, file, 1).text = <<>>
    /\ \/ PyPDF2Loop(<<>>, file, 1).raised
       \/ \A i \in 1..Len(file.pypdf_pages) : file.pypdf_pages[i] = <<>>

\* C14: for a PDF from which neither backend obtains text, RecapParser.parse
\* and DocumentProcessor's extraction end in an error; they do not return
\* an empty or whitespace-only text.
C14_EmptyExtractionFails ==
    (pc \in {"recap_parsed", "processor_extracted"} /\ NoTextInPdf) =>
        /\ IsRaised(extraction)
        /\ ~IsRaised(extraction) => Strip(extraction.text) # <<>>

\* no text can be obtained from the recap file: its extension is not
\* supported, it cannot be read, or both PDF backends raise
NoRecapText ==
    \/ LowerExt(file.ext) \notin SupportedExtensions
    \/ LowerExt(file.ext) \in {".txt", ".docx", ".doc"} /\ ~file.readable
    \/ /\ LowerExt(file.ext) = ".pdf"
       /\ PlumberLoop(<<>>, file, 1).raised
       /\ PyPDF2Loop(<<>>, file, 1).raised

\* C16: when no text can be obtained from the recap file,
\* DocumentProcessor.generate_charter_party ends in an error: it does not
\* save a document and return its path with a change report.
C16_ExtractionFailureAborts ==
    (pc = "processor_generated" /\ NoRecapText) => IsRaised(outcome)

\* C29: a generation on a template that the upload of simple_app accepted
\* (suffix .pdf, .doc or .docx) does not fail with the error of
\* load_cp_template for an unsupported template format
C29_AcceptedTemplateLoads ==
    (/\ pc = "processor_generated"
     /\ request.template_path_ext \in {".pdf", ".doc", ".docx"})
        => ~ (/\ IsRaised(outcome)
              /\ InSeq("Unsupported template format: ", outcome.message))

\* the generation on an uploaded .doc template failed with the error for an
\* unsupported template format
C29_DocTemplateFails ==
    /\ pc = "processor_generated"
    /\ request.template_path_ext = ".doc"
    /\ outcome = Raise("Exception", <<"Charter Party generation failed: ",
                                      "Unsupported template format: ",
                                      ".doc">>)

----------------------------------------------------------------------------
(* The re module on the patterns of the parsers: a pattern is the sequence
   of items that the re parser makes of it, matched by backtracking *)

\* the upper limit of +, * and {n,}: no limit
MAXREPEAT == 2147483647

Literal(c) == [op |-> "literal", c |-> c]

In(chars) == [op |-> "in", chars |-> chars]

MaxRepeat(min, max, item) ==
    [op |-> "max_repeat", min |-> min, max |-> max, item |-> item]

MinRepeat(min, max, item) ==
    [op |-> "min_repeat", min |-> min, max |-> max, item |-> item]

Subpattern(group, item) == [op |-> "subpattern", group |-> group, item |-> item]

Branch(items) == [op |-> "branch", items |-> items]

\* \s and \d on the characters of the model
CategorySpace == {" ", "\t", "\n", "\r", "\f"}

CategoryDigit == {"0", "1", "2", "3", "4", "5", "6", "7", "8", "9"}

\* the character of the text at a 0-based position
CharAt(text, pos) == text[pos + 1]

\* whether a literal, a character set or the dot matches the character
CharMatches(node, c) ==
    CASE node.op = "literal" -> c = node.c
      [] node.op = "in" -> c \in node.chars
      [] OTHER -> c # "\n"

\* the lists lists[lo], ..., lists[hi] one after the other
RECURSIVE ConcatRange(_, _, _)
ConcatRange(lists, lo, hi) ==
    IF lo > hi THEN <<>>
    ELSE IF lo = hi THEN lists[lo]
    ELSE ConcatRange(lists, lo, (lo + hi) \div 2)
         \o ConcatRange(lists, (lo + hi) \div 2 + 1, hi)

\* the repetition of an item that matches one character: run is the number
\* of characters it can take; the greedy repetition gives them back one by
\* one, the lazy one takes them one by one
MatchCharRepeat(node, text, st) ==
    LET limit == Min(node.max, Len(text) - st.pos)
        run == CHOOSE n \in 0..limit :
                   /\ \A i \in 0..(n - 1) :
                         CharMatches(node.item[1], CharAt(text, st.pos + i))
                   /\ \/ n = limit
                      \/ ~ CharMatches(node.item[1], CharAt(text, st.pos + n))
    IN  IF run < node.min THEN <<>>
        ELSE [j \in 1..(run - node.min + 1) |->
                [st EXCEPT !.pos = IF node.op = "max_repeat"
                                   THEN st.pos + run - (j - 1)
                                   ELSE st.pos + node.min + (j - 1)]]

\* the states in which the matcher can leave the items, the node or the
\* repetition, in the order in which backtracking reaches them: the first
\* one is the match; a state is the position and the span of group 1
RECURSIVE MatchItems(_, _, _)
RECURSIVE MatchNode(_, _, _)
RECURSIVE MatchRepeat(_, _, _, _)

MatchItems(items, text, sts) ==
    IF items = <<>> \/ sts = <<>> THEN sts
    ELSE MatchItems(Tail(items), text,
                    ConcatRange([i \in 1..Len(sts) |->
                                    MatchNode(Head(items), text, sts[i])],
                                1, Len(sts)))

MatchNode(node, text, st) ==
    CASE node.op \in {"literal", "in", "any"} ->
            IF st.pos < Len(text) /\ CharMatches(node, CharAt(text, st.pos))
            THEN <<[st EXCEPT !.pos = st.pos + 1]>> ELSE <<>>
      [] node.op = "at_end" ->
            \* re.MULTILINE: at the end of the text and before a newline
            IF st.pos = Len(text) \/ CharAt(text, st.pos) = "\n"
            THEN <<st>> ELSE <<>>
      [] node.op = "subpattern" ->
            LET ends == MatchItems(node.item, text, <<st>>)
            IN  IF node.group = 1
                THEN [i \in 1..Len(ends) |->
                        [ends[i] EXCEPT !.group1 = <<st.pos, ends[i].pos>>]]
                ELSE ends
      [] node.op = "branch" ->
            ConcatRange([i \in 1..Len(node.items) |->
                            MatchItems(node.items[i], text, <<st>>)],
                        1, Len(node.items))
      [] OTHER ->
            IF /\ Len(node.item) = 1
               /\ node.item[1].op \in {"literal", "in", "any"}
            THEN MatchCharRepeat(node, text, st)
            ELSE MatchRepeat(node, text, st, 0)

\* count repetitions are done: a greedy repetition tries one more before
\* it stops, a lazy one stops before it tries one more; the repetition is
\* continued from every state that one more repetition reaches, and a
\* repetition that consumed nothing is not continued
MatchRepeat(node, text, st, count) ==
    LET ends == MatchItems(node.item, text, <<st>>)
        more == IF count < node.max
                THEN ConcatRange(
                         [i \in 1..Len(ends) |->
                             IF ends[i].pos > st.pos
                             THEN MatchRepeat(node, text, ends[i], count + 1)
                             ELSE <<>>],
                         1, Len(ends))
                ELSE <<>>
        stop == IF count >= node.min THEN <<st>> ELSE <<>>
    IN  IF node.op = "max_repeat" THEN more \o stop ELSE stop \o more

\* the match of the pattern that starts at position start, or None; group
\* 1 is <<-1, -1>> as long as it has not taken part in the match
MatchAt(pattern, text, start) ==
    LET ends == MatchItems(pattern, text,
                           <<[pos |-> start, group1 |-> <<0 - 1, 0 - 1>>]>>)
    IN  IF ends = <<>> THEN None
        ELSE [span |-> <<start, ends[1].pos>>, group1 |-> ends[1].group1]

\* the matches found from position from on, each search starting where the
\* previous match ended; starts are the positions at which a match starts
RECURSIVE FindIterFrom(_, _, _, _)
FindIterFrom(pattern, text, starts, from) ==
    LET later == {start \in starts : start >= from}
    IN  IF later = {} THEN <<>>
        ELSE LET start == CHOOSE s \in later : \A t \in later : s <= t
                 match == MatchAt(pattern, text, start)
             IN  <<match>> \o FindIterFrom(pattern, text, starts,
                                           IF match.span[2] > start
                                           THEN match.span[2] ELSE start + 1)

\* re.finditer(pattern, text): the matches from left to right
FindIter(pattern, text, start) ==
    FindIterFrom(pattern, text,
                 {s \in 0..Len(text) : MatchAt(pattern, text, s) # None},
                 start)

\* RecapParser.term_patterns: for every term type, in the order of the
\* dictionary, its patterns as parsed by the re module
term_patterns ==
    <<
     [key |-> "freight", patterns |-> <<
        \* r'freight[:\s]+(\$?[\d,]+\.?\d*)\s*(per|\/)\s*(mt|ton|tonne)'
        <<Literal("f"), Literal("r"), Literal("e"), Literal("i"),
        Literal("g"), Literal("h"), Literal("t"), MaxRepeat(1, MAXREPEAT,
        <<In({":"} \cup CategorySpace)>>), Subpattern(1, <<MaxRepeat(0, 1,
        <<Literal("$")>>), MaxRepeat(1, MAXREPEAT, <<In({","} \cup
        CategoryDigit)>>), MaxRepeat(0, 1, <<Literal(".")>>), MaxRepeat(0,
        MAXREPEAT, <<In(CategoryDigit)>>)>>), MaxRepeat(0, MAXREPEAT,
        <<In(CategorySpace)>>), Subpattern(2, <<Branch(<< <<Literal("p"),
        Literal("e"), Literal("r")>>, <<Literal("/")>> >>)>>), MaxRepeat(0,
        MAXREPEAT, <<In(CategorySpace)>>), Subpattern(3, <<Branch(<<
        <<Literal("m"), Literal("t")>>, <<Literal("t"), Literal("o"),
        Literal("n")>>, <<Literal("t"), Literal("o"), Literal("n"),
        Literal("n"), Literal("e")>> >>)>>)>>,
        \* r'freight rate[:\s]+(\$?[\d,]+\.?\d*)'
        <<Literal("f"), Literal("r"), Literal("e"), Literal("i"),
        Literal("g"), Literal("h"), Literal("t"), Literal(" "), Literal("r"),
        Literal("a"), Literal("t"), Literal("e"), MaxRepeat(1, MAXREPEAT,
        <<In({":"} \cup CategorySpace)>>), Subpattern(1, <<MaxRepeat(0, 1,
        <<Literal("$")>>), MaxRepeat(1, MAXREPEAT, <<In({","} \cup
        CategoryDigit)>>), MaxRepeat(0, 1, <<Literal(".")>>), MaxRepeat(0,
        MAXREPEAT, <<In(CategoryDigit)>>)>>)>>,
        \* r'(\$?[\d,]+\.?\d*)\s*(per|\/)\s*(mt|ton|tonne)\s*freight'
        <<Subpattern(1, <<MaxRepeat(0, 1, <<Literal("$")>>), MaxRepeat(1,
        MAXREPEAT, <<In({","} \cup CategoryDigit)>>), MaxRepeat(0, 1,
        <<Literal(".")>>), MaxRepeat(0, MAXREPEAT, <<In(CategoryDigit)>>)>>),
        MaxRepeat(0, MAXREPEAT, <<In(CategorySpace)>>), Subpattern(2,
        <<Branch(<< <<Literal("p"), Literal("e"), Literal("r")>>,
        <<Literal("/")>> >>)>>), MaxRepeat(0, MAXREPEAT,
        <<In(CategorySpace)>>), Subpattern(3, <<Branch(<< <<Literal("m"),
        Literal("t")>>, <<Literal("t"), Literal("o"), Literal("n")>>,
        <<Literal("t"), Literal("o"), Literal("n"), Literal("n"),
        Literal("e")>> >>)>>), MaxRepeat(0, MAXREPEAT, <<In(CategorySpace)>>),
        Literal("f"), Literal("r"), Literal("e"), Literal("i"), Literal("g"),
        Literal("h"), Literal("t")>>
     >>],
     [key |-> "laycan", patterns |-> <<
        \* r'laycan[:\s]+(\d{1,2}[-\/]\d{1,2}[-\/]\d{2,4})\s*[-to]\s*(\d{1,2}[-\/]\d{1,2}[-\/]\d{2,4})'
        <<Literal("l"), Literal("a"), Literal("y"), Literal("c"),
        Literal("a"), Literal("n"), MaxRepeat(1, MAXREPEAT, <<In({":"} \cup
        CategorySpace)>>), Subpattern(1, <<MaxRepeat(1, 2,
        <<In(CategoryDigit)>>), In({"-", "/"}), MaxRepeat(1, 2,
        <<In(CategoryDigit)>>), In({"-", "/"}), MaxRepeat(2, 4,
        <<In(CategoryDigit)>>)>>), MaxRepeat(0, MAXREPEAT,
        <<In(CategorySpace)>>), In({"-", "t", "o"}), MaxRepeat(0, MAXREPEAT,
        <<In(CategorySpace)>>), Subpattern(2, <<MaxRepeat(1, 2,
        <<In(CategoryDigit)>>), In({"-", "/"}), MaxRepeat(1, 2,
        <<In(CategoryDigit)>>), In({"-", "/"}), MaxRepeat(2, 4,
        <<In(CategoryDigit)>>)>>)>>,
        \* r'lay.*days?[:\s]+(\d{1,2}[-\/]\d{1,2}[-\/]\d{2,4})\s*[-to]\s*(\d{1,2}[-\/]\d{1,2}[-\/]\d{2,4})'
        <<Literal("l"), Literal("a"), Literal("y"), MaxRepeat(0, MAXREPEAT,
        <<[op |-> "any"]>>), Literal("d"), Literal("a"), Literal("y"), MaxRepeat(0, 1,
        <<Literal("s")>>), MaxRepeat(1, MAXREPEAT, <<In({":"} \cup
        CategorySpace)>>), Subpattern(1, <<MaxRepeat(1, 2,
        <<In(CategoryDigit)>>), In({"-", "/"}), MaxRepeat(1, 2,
        <<In(CategoryDigit)>>), In({"-", "/"}), MaxRepeat(2, 4,
        <<In(CategoryDigit)>>)>>), MaxRepeat(0, MAXREPEAT,
        <<In(CategorySpace)>>), In({"-", "t", "o"}), MaxRepeat(0, MAXREPEAT,
        <<In(CategorySpace)>>), Subpattern(2, <<MaxRepeat(1, 2,
        <<In(CategoryDigit)>>), In({"-", "/"}), MaxRepeat(1, 2,
        <<In(CategoryDigit)>>), In({"-", "/"}), MaxRepeat(2, 4,
        <<In(CategoryDigit)>>)>>)>>,
        \* r'cancelling[:\s]+(\d{1,2}[-\/]\d{1,2}[-\/]\d{2,4})'
        <<Literal("c"), Literal("a"), Literal("n"), Literal("c"),
        Literal("e"), Literal("l"), Literal("l"), Literal("i"), Literal("n"),
        Literal("g"), MaxRepeat(1, MAXREPEAT, <<In({":"} \cup
        CategorySpace)>>), Subpattern(1, <<MaxRepeat(1, 2,
        <<In(CategoryDigit)>>), In({"-", "/"}), MaxRepeat(1, 2,
        <<In(CategoryDigit)>>), In({"-", "/"}), MaxRepeat(2, 4,
        <<In(CategoryDigit)>>)>>)>>
     >>],
     [key |-> "cargo", patterns |-> <<
        \* r'cargo[:\s]+(.+?)(?:\n|$)'
        <<Literal("c"), Literal("a"), Literal("r"), Literal("g"),
        Literal("o"), MaxRepeat(1, MAXREPEAT, <<In({":"} \cup
        CategorySpace)>>), Subpattern(1, <<MinRepeat(1, MAXREPEAT,
        <<[op |-> "any"]>>)>>), Branch(<< <<Literal("\n")>>, <<[op |-> "at_end"]>> >>)>>,
        \* r'commodity[:\s]+(.+?)(?:\n|$)'
        <<Literal("c"), Literal("o"), Literal("m"), Literal("m"),
        Literal("o"), Literal("d"), Literal("i"), Literal("t"), Literal("y"),
        MaxRepeat(1, MAXREPEAT, <<In({":"} \cup CategorySpace)>>),
        Subpattern(1, <<MinRepeat(1, MAXREPEAT, <<[op |-> "any"]>>)>>), Branch(<<
        <<Literal("\n")>>, <<[op |-> "at_end"]>> >>)>>,
        \* r'(\d+(?:,\d+)*)\s*(mt|tons?|tonnes?)\s*(?:of\s+)?(.+?)(?:\n|$)'
        <<Subpattern(1, <<MaxRepeat(1, MAXREPEAT, <<In(CategoryDigit)>>),
        MaxRepeat(0, MAXREPEAT, <<Literal(","), MaxRepeat(1, MAXREPEAT,
        <<In(CategoryDigit)>>)>>)>>), MaxRepeat(0, MAXREPEAT,
        <<In(CategorySpace)>>), Subpattern(2, <<Branch(<< <<Literal("m"),
        Literal("t")>>, <<Literal("t"), Literal("o"), Literal("n"),
        MaxRepeat(0, 1, <<Literal("s")>>)>>, <<Literal("t"), Literal("o"),
        Literal("n"), Literal("n"), Literal("e"), MaxRepeat(0, 1,
        <<Literal("s")>>)>> >>)>>), MaxRepeat(0, MAXREPEAT,
        <<In(CategorySpace)>>), MaxRepeat(0, 1, <<Literal("o"), Literal("f"),
        MaxRepeat(1, MAXREPEAT, <<In(CategorySpace)>>)>>), Subpattern(3,
        <<MinRepeat(1, MAXREPEAT, <<[op |-> "any"]>>)>>), Branch(<< <<Literal("\n")>>,
        <<[op |-> "at_end"]>> >>)>>
     >>],
     [key |-> "load_port", patterns |-> <<
        \* r'load(?:ing)?\s*port[:\s]+(.+?)(?:\n|$)'
        <<Literal("l"), Literal("o"), Literal("a"), Literal("d"), MaxRepeat(0,
        1, <<Literal("i"), Literal("n"), Literal("g")>>), MaxRepeat(0,
        MAXREPEAT, <<In(CategorySpace)>>), Literal("p"), Literal("o"),
        Literal("r"), Literal("t"), MaxRepeat(1, MAXREPEAT, <<In({":"} \cup
        CategorySpace)>>), Subpattern(1, <<MinRepeat(1, MAXREPEAT,
        <<[op |-> "any"]>>)>>), Branch(<< <<Literal("\n")>>, <<[op |-> "at_end"]>> >>)>>,
        \* r'load(?:ing)?[:\s]+(.+?)(?:\n|$)'
        <<Literal("l"), Literal("o"), Literal("a"), Literal("d"), MaxRepeat(0,
        1, <<Literal("i"), Literal("n"), Literal("g")>>), MaxRepeat(1,
        MAXREPEAT, <<In({":"} \cup CategorySpace)>>), Subpattern(1,
        <<MinRepeat(1, MAXREPEAT, <<[op |-> "any"]>>)>>), Branch(<< <<Literal("\n")>>,
        <<[op |-> "at_end"]>> >>)>>,
        \* r'from[:\s]+(.+?)(?:\n|$)'
        <<Literal("f"), Literal("r"), Literal("o"), Literal("m"), MaxRepeat(1,
        MAXREPEAT, <<In({":"} \cup CategorySpace)>>), Subpattern(1,
        <<MinRepeat(1, MAXREPEAT, <<[op |-> "any"]>>)>>), Branch(<< <<Literal("\n")>>,
        <<[op |-> "at_end"]>> >>)>>
     >>],
     [key |-> "discharge_port", patterns |-> <<
        \* r'discharge\s*port[:\s]+(.+?)(?:\n|$)'
        <<Literal("d"), Literal("i"), Literal("s"), Literal("c"),
        Literal("h"), Literal("a"), Literal("r"), Literal("g"), Literal("e"),
        MaxRepeat(0, MAXREPEAT, <<In(CategorySpace)>>), Literal("p"),
        Literal("o"), Literal("r"), Literal("t"), MaxRepeat(1, MAXREPEAT,
        <<In({":"} \cup CategorySpace)>>), Subpattern(1, <<MinRepeat(1,
        MAXREPEAT, <<[op |-> "any"]>>)>>), Branch(<< <<Literal("\n")>>, <<[op |-> "at_end"]>> >>)>>,
        \* r'discharge[:\s]+(.+?)(?:\n|$)'
        <<Literal("d"), Literal("i"), Literal("s"), Literal("c"),
        Literal("h"), Literal("a"), Literal("r"), Literal("g"), Literal("e"),
        MaxRepeat(1, MAXREPEAT, <<In({":"} \cup CategorySpace)>>),
        Subpattern(1, <<MinRepeat(1, MAXREPEAT, <<[op |-> "any"]>>)>>), Branch(<<
        <<Literal("\n")>>, <<[op |-> "at_end"]>> >>)>>,
        \* r'to[:\s]+(.+?)(?:\n|$)'
        <<Literal("t"), Literal("o"), MaxRepeat(1, MAXREPEAT, <<In({":"} \cup
        CategorySpace)>>), Subpattern(1, <<MinRepeat(1, MAXREPEAT,
        <<[op |-> "any"]>>)>>), Branch(<< <<Literal("\n")>>, <<[op |-> "at_end"]>> >>)>>
     >>],
     [key |-> "demurrage", patterns |-> <<
        \* r'demurrage[:\s]+(\$?[\d,]+\.?\d*)\s*per\s*day'
        <<Literal("d"), Literal("e"), Literal("m"), Literal("u"),
        Literal("r"), Literal("r"), Literal("a"), Literal("g"), Literal("e"),
        MaxRepeat(1, MAXREPEAT, <<In({":"} \cup CategorySpace)>>),
        Subpattern(1, <<MaxRepeat(0, 1, <<Literal("$")>>), MaxRepeat(1,
        MAXREPEAT, <<In({","} \cup CategoryDigit)>>), MaxRepeat(0, 1,
        <<Literal(".")>>), MaxRepeat(0, MAXREPEAT, <<In(CategoryDigit)>>)>>),
        MaxRepeat(0, MAXREPEAT, <<In(CategorySpace)>>), Literal("p"),
        Literal("e"), Literal("r"), MaxRepeat(0, MAXREPEAT,
        <<In(CategorySpace)>>), Literal("d"), Literal("a"), Literal("y")>>,
        \* r'dem[:\s]+(\$?[\d,]+\.?\d*)\s*\/\s*day'
        <<Literal("d"), Literal("e"), Literal("m"), MaxRepeat(1, MAXREPEAT,
        <<In({":"} \cup CategorySpace)>>), Subpattern(1, <<MaxRepeat(0, 1,
        <<Literal("$")>>), MaxRepeat(1, MAXREPEAT, <<In({","} \cup
        CategoryDigit)>>), MaxRepeat(0, 1, <<Literal(".")>>), MaxRepeat(0,
        MAXREPEAT, <<In(CategoryDigit)>>)>>), MaxRepeat(0, MAXREPEAT,
        <<In(CategorySpace)>>), Literal("/"), MaxRepeat(0, MAXREPEAT,
        <<In(CategorySpace)>>), Literal("d"), Literal("a"), Literal("y")>>,
        \* r'(\$?[\d,]+\.?\d*)\s*per\s*day\s*demurrage'
        <<Subpattern(1, <<MaxRepeat(0, 1, <<Literal("$")>>), MaxRepeat(1,
        MAXREPEAT, <<In({","} \cup CategoryDigit)>>), MaxRepeat(0, 1,
        <<Literal(".")>>), MaxRepeat(0, MAXREPEAT, <<In(CategoryDigit)>>)>>),
        MaxRepeat(0, MAXREPEAT, <<In(CategorySpace)>>), Literal("p"),
        Literal("e"), Literal("r"), MaxRepeat(0, MAXREPEAT,
        <<In(CategorySpace)>>), Literal("d"), Literal("a"), Literal("y"),
        MaxRepeat(0, MAXREPEAT, <<In(CategorySpace)>>), Literal("d"),
        Literal("e"), Literal("m"), Literal("u"), Literal("r"), Literal("r"),
        Literal("a"), Literal("g"), Literal("e")>>
     >>],
     [key |-> "despatch", patterns |-> <<
        \* r'despatch[:\s]+(\$?[\d,]+\.?\d*)\s*per\s*day'
        <<Literal("d"), Literal("e"), Literal("s"), Literal("p"),
        Literal("a"), Literal("t"), Literal("c"), Literal("h"), MaxRepeat(1,
        MAXREPEAT, <<In({":"} \cup CategorySpace)>>), Subpattern(1,
        <<MaxRepeat(0, 1, <<Literal("$")>>), MaxRepeat(1, MAXREPEAT,
        <<In({","} \cup CategoryDigit)>>), MaxRepeat(0, 1, <<Literal(".")>>),
        MaxRepeat(0, MAXREPEAT, <<In(CategoryDigit)>>)>>), MaxRepeat(0,
        MAXREPEAT, <<In(CategorySpace)>>), Literal("p"), Literal("e"),
        Literal("r"), MaxRepeat(0, MAXREPEAT, <<In(CategorySpace)>>),
        Literal("d"), Literal("a"), Literal("y")>>,
        \* r'desp[:\s]+(\$?[\d,]+\.?\d*)\s*\/\s*day'
        <<Literal("d"), Literal("e"), Literal("s"), Literal("p"), MaxRepeat(1,
        MAXREPEAT, <<In({":"} \cup CategorySpace)>>), Subpattern(1,
        <<MaxRepeat(0, 1, <<Literal("$")>>), MaxRepeat(1, MAXREPEAT,
        <<In({","} \cup CategoryDigit)>>), MaxRepeat(0, 1, <<Literal(".")>>),
        MaxRepeat(0, MAXREPEAT, <<In(CategoryDigit)>>)>>), MaxRepeat(0,
        MAXREPEAT, <<In(CategorySpace)>>), Literal("/"), MaxRepeat(0,
        MAXREPEAT, <<In(CategorySpace)>>), Literal("d"), Literal("a"),
        Literal("y")>>,
        \* r'(\$?[\d,]+\.?\d*)\s*per\s*day\s*despatch'
        <<Subpattern(1, <<MaxRepeat(0, 1, <<Literal("$")>>), MaxRepeat(1,
        MAXREPEAT, <<In({","} \cup CategoryDigit)>>), MaxRepeat(0, 1,
        <<Literal(".")>>), MaxRepeat(0, MAXREPEAT, <<In(CategoryDigit)>>)>>),
        MaxRepeat(0, MAXREPEAT, <<In(CategorySpace)>>), Literal("p"),
        Literal("e"), Literal("r"), MaxRepeat(0, MAXREPEAT,
        <<In(CategorySpace)>>), Literal("d"), Literal("a"), Literal("y"),
        MaxRepeat(0, MAXREPEAT, <<In(CategorySpace)>>), Literal("d"),
        Literal("e"), Literal("s"), Literal("p"), Literal("a"), Literal("t"),
        Literal("c"), Literal("h")>>
     >>],
     [key |-> "quantity", patterns |-> <<
        \* r'quantity[:\s]+(\d+(?:,\d+)*)\s*(mt|tons?|tonnes?)'
        <<Literal("q"), Literal("u"), Literal("a"), Literal("n"),
        Literal("t"), Literal("i"), Literal("t"), Literal("y"), MaxRepeat(1,
        MAXREPEAT, <<In({":"} \cup CategorySpace)>>), Subpattern(1,
        <<MaxRepeat(1, MAXREPEAT, <<In(CategoryDigit)>>), MaxRepeat(0,
        MAXREPEAT, <<Literal(","), MaxRepeat(1, MAXREPEAT,
        <<In(CategoryDigit)>>)>>)>>), MaxRepeat(0, MAXREPEAT,
        <<In(CategorySpace)>>), Subpattern(2, <<Branch(<< <<Literal("m"),
        Literal("t")>>, <<Literal("t"), Literal("o"), Literal("n"),
        MaxRepeat(0, 1, <<Literal("s")>>)>>, <<Literal("t"), Literal("o"),
        Literal("n"), Literal("n"), Literal("e"), MaxRepeat(0, 1,
        <<Literal("s")>>)>> >>)>>)>>,
        \* r'(\d+(?:,\d+)*)\s*(mt|tons?|tonnes?)\s*(?:cargo|commodity)'
        <<Subpattern(1, <<MaxRepeat(1, MAXREPEAT, <<In(CategoryDigit)>>),
        MaxRepeat(0, MAXREPEAT, <<Literal(","), MaxRepeat(1, MAXREPEAT,
        <<In(CategoryDigit)>>)>>)>>), MaxRepeat(0, MAXREPEAT,
        <<In(CategorySpace)>>), Subpattern(2, <<Branch(<< <<Literal("m"),
        Literal("t")>>, <<Literal("t"), Literal("o"), Literal("n"),
        MaxRepeat(0, 1, <<Literal("s")>>)>>, <<Literal("t"), Literal("o"),
        Literal("n"), Literal("n"), Literal("e"), MaxRepeat(0, 1,
        <<Literal("s")>>)>> >>)>>), MaxRepeat(0, MAXREPEAT,
        <<In(CategorySpace)>>), Literal("c"), Branch(<< <<Literal("a"),
        Literal("r"), Literal("g"), Literal("o")>>, <<Literal("o"),
        Literal("m"), Literal("m"), Literal("o"), Literal("d"), Literal("i"),
        Literal("t"), Literal("y")>> >>)>>,
        \* r'about\s+(\d+(?:,\d+)*)\s*(mt|tons?|tonnes?)'
        <<Literal("a"), Literal("b"), Literal("o"), Literal("u"),
        Literal("t"), MaxRepeat(1, MAXREPEAT, <<In(CategorySpace)>>),
        Subpattern(1, <<MaxRepeat(1, MAXREPEAT, <<In(CategoryDigit)>>),
        MaxRepeat(0, MAXREPEAT, <<Literal(","), MaxRepeat(1, MAXREPEAT,
        <<In(CategoryDigit)>>)>>)>>), MaxRepeat(0, MAXREPEAT,
        <<In(CategorySpace)>>), Subpattern(2, <<Branch(<< <<Literal("m"),
        Literal("t")>>, <<Literal("t"), Literal("o"), Literal("n"),
        MaxRepeat(0, 1, <<Literal("s")>>)>>, <<Literal("t"), Literal("o"),
        Literal("n"), Literal("n"), Literal("e"), MaxRepeat(0, 1,
        <<Literal("s")>>)>> >>)>>)>>
     >>],
     [key |-> "vessel", patterns |-> <<
        \* r'vessel[:\s]+(.+?)(?:\n|$)'
        <<Literal("v"), Literal("e"), Literal("s"), Literal("s"),
        Literal("e"), Literal("l"), MaxRepeat(1, MAXREPEAT, <<In({":"} \cup
        CategorySpace)>>), Subpattern(1, <<MinRepeat(1, MAXREPEAT,
        <<[op |-> "any"]>>)>>), Branch(<< <<Literal("\n")>>, <<[op |-> "at_end"]>> >>)>>,
        \* r'ship[:\s]+(.+?)(?:\n|$)'
        <<Literal("s"), Literal("h"), Literal("i"), Literal("p"), MaxRepeat(1,
        MAXREPEAT, <<In({":"} \cup CategorySpace)>>), Subpattern(1,
        <<MinRepeat(1, MAXREPEAT, <<[op |-> "any"]>>)>>), Branch(<< <<Literal("\n")>>,
        <<[op |-> "at_end"]>> >>)>>,
        \* r'm[\/]v\s+(.+?)(?:\n|$)'
        <<Literal("m"), Literal("/"), Literal("v"), MaxRepeat(1, MAXREPEAT,
        <<In(CategorySpace)>>), Subpattern(1, <<MinRepeat(1, MAXREPEAT,
        <<[op |-> "any"]>>)>>), Branch(<< <<Literal("\n")>>, <<[op |-> "at_end"]>> >>)>>
     >>],
     [key |-> "charterer", patterns |-> <<
        \* r'charterer[:\s]+(.+?)(?:\n|$)'
        <<Literal("c"), Literal("h"), Literal("a"), Literal("r"),
        Literal("t"), Literal("e"), Literal("r"), Literal("e"), Literal("r"),
        MaxRepeat(1, MAXREPEAT, <<In({":"} \cup CategorySpace)>>),
        Subpattern(1, <<MinRepeat(1, MAXREPEAT, <<[op |-> "any"]>>)>>), Branch(<<
        <<Literal("\n")>>, <<[op |-> "at_end"]>> >>)>>,
        \* r'chtr[:\s]+(.+?)(?:\n|$)'
        <<Literal("c"), Literal("h"), Literal("t"), Literal("r"), MaxRepeat(1,
        MAXREPEAT, <<In({":"} \cup CategorySpace)>>), Subpattern(1,
        <<MinRepeat(1, MAXREPEAT, <<[op |-> "any"]>>)>>), Branch(<< <<Literal("\n")>>,
        <<[op |-> "at_end"]>> >>)>>
     >>],
     [key |-> "owner", patterns |-> <<
        \* r'owner[:\s]+(.+?)(?:\n|$)'
        <<Literal("o"), Literal("w"), Literal("n"), Literal("e"),
        Literal("r"), MaxRepeat(1, MAXREPEAT, <<In({":"} \cup
        CategorySpace)>>), Subpattern(1, <<MinRepeat(1, MAXREPEAT,
        <<[op |-> "any"]>>)>>), Branch(<< <<Literal("\n")>>, <<[op |-> "at_end"]>> >>)>>,
        \* r'disponent[:\s]+(.+?)(?:\n|$)'
        <<Literal("d"), Literal("i"), Literal("s"), Literal("p"),
        Literal("o"), Literal("n"), Literal("e"), Literal("n"), Literal("t"),
        MaxRepeat(1, MAXREPEAT, <<In({":"} \cup CategorySpace)>>),
        Subpattern(1, <<MinRepeat(1, MAXREPEAT, <<[op |-> "any"]>>)>>), Branch(<<
        <<Literal("\n")>>, <<[op |-> "at_end"]>> >>)>>
     >>]
    >>

\* TemplateParser.field_patterns: for every field type, in the order of the
\* dictionary, its patterns as parsed by the re module
field_patterns ==
    <<
     [key |-> "vessel_name", patterns |-> <<
        \* r'\[vessel name\]'
        <<Literal("["), Literal("v"), Literal("e"), Literal("s"),
        Literal("s"), Literal("e"), Literal("l"), Literal(" "), Literal("n"),
        Literal("a"), Literal("m"), Literal("e"), Literal("]")>>,
        \* r'\[vessel\]'
        <<Literal("["), Literal("v"), Literal("e"), Literal("s"),
        Literal("s"), Literal("e"), Literal("l"), Literal("]")>>,
        \* r'___+\s*vessel'
        <<Literal("_"), Literal("_"), MaxRepeat(1, MAXREPEAT,
        <<Literal("_")>>), MaxRepeat(0, MAXREPEAT, <<In(CategorySpace)>>),
        Literal("v"), Literal("e"), Literal("s"), Literal("s"), Literal("e"),
        Literal("l")>>,
        \* r'm\.?v\.?\s*___+'
        <<Literal("m"), MaxRepeat(0, 1, <<Literal(".")>>), Literal("v"),
        MaxRepeat(0, 1, <<Literal(".")>>), MaxRepeat(0, MAXREPEAT,
        <<In(CategorySpace)>>), Literal("_"), Literal("_"), MaxRepeat(1,
        MAXREPEAT, <<Literal("_")>>)>>,
        \* r'vessel:?\s*___+'
        <<Literal("v"), Literal("e"), Literal("s"), Literal("s"),
        Literal("e"), Literal("l"), MaxRepeat(0, 1, <<Literal(":")>>),
        MaxRepeat(0, MAXREPEAT, <<In(CategorySpace)>>), Literal("_"),
        Literal("_"), MaxRepeat(1, MAXREPEAT, <<Literal("_")>>)>>
     >>],
     [key |-> "charterer", patterns |-> <<
        \* r'\[charterer\]'
        <<Literal("["), Literal("c"), Literal("h"), Literal("a"),
        Literal("r"), Literal("t"), Literal("e"), Literal("r"), Literal("e"),
        Literal("r"), Literal("]")>>,
        \* r'\[charterers?\]'
        <<Literal("["), Literal("c"), Literal("h"), Literal("a"),
        Literal("r"), Literal("t"), Literal("e"), Literal("r"), Literal("e"),
        Literal("r"), MaxRepeat(0, 1, <<Literal("s")>>), Literal("]")>>,
        \* r'___+\s*charterer'
        <<Literal("_"), Literal("_"), MaxRepeat(1, MAXREPEAT,
        <<Literal("_")>>), MaxRepeat(0, MAXREPEAT, <<In(CategorySpace)>>),
        Literal("c"), Literal("h"), Literal("a"), Literal("r"), Literal("t"),
        Literal("e"), Literal("r"), Literal("e"), Literal("r")>>,
        \* r'charterer:?\s*___+'
        <<Literal("c"), Literal("h"), Literal("a"), Literal("r"),
        Literal("t"), Literal("e"), Literal("r"), Literal("e"), Literal("r"),
        MaxRepeat(0, 1, <<Literal(":")>>), MaxRepeat(0, MAXREPEAT,
        <<In(CategorySpace)>>), Literal("_"), Literal("_"), MaxRepeat(1,
        MAXREPEAT, <<Literal("_")>>)>>
     >>],
     [key |-> "owner", patterns |-> <<
        \* r'\[owner\]'
        <<Literal("["), Literal("o"), Literal("w"), Literal("n"),
        Literal("e"), Literal("r"), Literal("]")>>,
        \* r'\[owners?\]'
        <<Literal("["), Literal("o"), Literal("w"), Literal("n"),
        Literal("e"), Literal("r"), MaxRepeat(0, 1, <<Literal("s")>>),
        Literal("]")>>,
        \* r'___+\s*owner'
        <<Literal("_"), Literal("_"), MaxRepeat(1, MAXREPEAT,
        <<Literal("_")>>), MaxRepeat(0, MAXREPEAT, <<In(CategorySpace)>>),
        Literal("o"), Literal("w"), Literal("n"), Literal("e"), Literal("r")>>,
        \* r'owner:?\s*___+'
        <<Literal("o"), Literal("w"), Literal("n"), Literal("e"),
        Literal("r"), MaxRepeat(0, 1, <<Literal(":")>>), MaxRepeat(0,
        MAXREPEAT, <<In(CategorySpace)>>), Literal("_"), Literal("_"),
        MaxRepeat(1, MAXREPEAT, <<Literal("_")>>)>>,
        \* r'disponent:?\s*___+'
        <<Literal("d"), Literal("i"), Literal("s"), Literal("p"),
        Literal("o"), Literal("n"), Literal("e"), Literal("n"), Literal("t"),
        MaxRepeat(0, 1, <<Literal(":")>>), MaxRepeat(0, MAXREPEAT,
        <<In(CategorySpace)>>), Literal("_"), Literal("_"), MaxRepeat(1,
        MAXREPEAT, <<Literal("_")>>)>>
     >>],
     [key |-> "cargo", patterns |-> <<
        \* r'\[cargo\]'
        <<Literal("["), Literal("c"), Literal("a"), Literal("r"),
        Literal("g"), Literal("o"), Literal("]")>>,
        \* r'\[commodity\]'
        <<Literal("["), Literal("c"), Literal("o"), Literal("m"),
        Literal("m"), Literal("o"), Literal("d"), Literal("i"), Literal("t"),
        Literal("y"), Literal("]")>>,
        \* r'___+\s*cargo'
        <<Literal("_"), Literal("_"), MaxRepeat(1, MAXREPEAT,
        <<Literal("_")>>), MaxRepeat(0, MAXREPEAT, <<In(CategorySpace)>>),
        Literal("c"), Literal("a"), Literal("r"), Literal("g"), Literal("o")>>,
        \* r'cargo:?\s*___+'
        <<Literal("c"), Literal("a"), Literal("r"), Literal("g"),
        Literal("o"), MaxRepeat(0, 1, <<Literal(":")>>), MaxRepeat(0,
        MAXREPEAT, <<In(CategorySpace)>>), Literal("_"), Literal("_"),
        MaxRepeat(1, MAXREPEAT, <<Literal("_")>>)>>,
        \* r'commodity:?\s*___+'
        <<Literal("c"), Literal("o"), Literal("m"), Literal("m"),
        Literal("o"), Literal("d"), Literal("i"), Literal("t"), Literal("y"),
        MaxRepeat(0, 1, <<Literal(":")>>), MaxRepeat(0, MAXREPEAT,
        <<In(CategorySpace)>>), Literal("_"), Literal("_"), MaxRepeat(1,
        MAXREPEAT, <<Literal("_")>>)>>
     >>],
     [key |-> "quantity", patterns |-> <<
        \* r'\[quantity\]'
        <<Literal("["), Literal("q"), Literal("u"), Literal("a"),
        Literal("n"), Literal("t"), Literal("i"), Literal("t"), Literal("y"),
        Literal("]")>>,
        \* r'\[tonnage\]'
        <<Literal("["), Literal("t"), Literal("o"), Literal("n"),
        Literal("n"), Literal("a"), Literal("g"), Literal("e"), Literal("]")>>,
        \* r'___+\s*(?:metric\s*)?tons?'
        <<Literal("_"), Literal("_"), MaxRepeat(1, MAXREPEAT,
        <<Literal("_")>>), MaxRepeat(0, MAXREPEAT, <<In(CategorySpace)>>),
        MaxRepeat(0, 1, <<Literal("m"), Literal("e"), Literal("t"),
        Literal("r"), Literal("i"), Literal("c"), MaxRepeat(0, MAXREPEAT,
        <<In(CategorySpace)>>)>>), Literal("t"), Literal("o"), Literal("n"),
        MaxRepeat(0, 1, <<Literal("s")>>)>>,
        \* r'quantity:?\s*___+'
        <<Literal("q"), Literal("u"), Literal("a"), Literal("n"),
        Literal("t"), Literal("i"), Literal("t"), Literal("y"), MaxRepeat(0,
        1, <<Literal(":")>>), MaxRepeat(0, MAXREPEAT, <<In(CategorySpace)>>),
        Literal("_"), Literal("_"), MaxRepeat(1, MAXREPEAT,
        <<Literal("_")>>)>>,
        \* r'\d+\s*___+\s*(?:metric\s*)?tons?'
        <<MaxRepeat(1, MAXREPEAT, <<In(CategoryDigit)>>), MaxRepeat(0,
        MAXREPEAT, <<In(CategorySpace)>>), Literal("_"), Literal("_"),
        MaxRepeat(1, MAXREPEAT, <<Literal("_")>>), MaxRepeat(0, MAXREPEAT,
        <<In(CategorySpace)>>), MaxRepeat(0, 1, <<Literal("m"), Literal("e"),
        Literal("t"), Literal("r"), Literal("i"), Literal("c"), MaxRepeat(0,
        MAXREPEAT, <<In(CategorySpace)>>)>>), Literal("t"), Literal("o"),
        Literal("n"), MaxRepeat(0, 1, <<Literal("s")>>)>>
     >>],
     [key |-> "load_port", patterns |-> <<
        \* r'\[load(?:ing)?\s*port\]'
        <<Literal("["), Literal("l"), Literal("o"), Literal("a"),
        Literal("d"), MaxRepeat(0, 1, <<Literal("i"), Literal("n"),
        Literal("g")>>), MaxRepeat(0, MAXREPEAT, <<In(CategorySpace)>>),
        Literal("p"), Literal("o"), Literal("r"), Literal("t"), Literal("]")>>,
        \* r'\[port\s*of\s*loading\]'
        <<Literal("["), Literal("p"), Literal("o"), Literal("r"),
        Literal("t"), MaxRepeat(0, MAXREPEAT, <<In(CategorySpace)>>),
        Literal("o"), Literal("f"), MaxRepeat(0, MAXREPEAT,
        <<In(CategorySpace)>>), Literal("l"), Literal("o"), Literal("a"),
        Literal("d"), Literal("i"), Literal("n"), Literal("g"), Literal("]")>>,
        \* r'___+\s*(?:port\s*of\s*)?loading'
        <<Literal("_"), Literal("_"), MaxRepeat(1, MAXREPEAT,
        <<Literal("_")>>), MaxRepeat(0, MAXREPEAT, <<In(CategorySpace)>>),
        MaxRepeat(0, 1, <<Literal("p"), Literal("o"), Literal("r"),
        Literal("t"), MaxRepeat(0, MAXREPEAT, <<In(CategorySpace)>>),
        Literal("o"), Literal("f"), MaxRepeat(0, MAXREPEAT,
        <<In(CategorySpace)>>)>>), Literal("l"), Literal("o"), Literal("a"),
        Literal("d"), Literal("i"), Literal("n"), Literal("g")>>,
        \* r'loading:?\s*___+'
        <<Literal("l"), Literal("o"), Literal("a"), Literal("d"),
        Literal("i"), Literal("n"), Literal("g"), MaxRepeat(0, 1,
        <<Literal(":")>>), MaxRepeat(0, MAXREPEAT, <<In(CategorySpace)>>),
        Literal("_"), Literal("_"), MaxRepeat(1, MAXREPEAT,
        <<Literal("_")>>)>>
     >>],
     [key |-> "discharge_port", patterns |-> <<
        \* r'\[discharge\s*port\]'
        <<Literal("["), Literal("d"), Literal("i"), Literal("s"),
        Literal("c"), Literal("h"), Literal("a"), Literal("r"), Literal("g"),
        Literal("e"), MaxRepeat(0, MAXREPEAT, <<In(CategorySpace)>>),
        Literal("p"), Literal("o"), Literal("r"), Literal("t"), Literal("]")>>,
        \* r'\[port\s*of\s*discharge\]'
        <<Literal("["), Literal("p"), Literal("o"), Literal("r"),
        Literal("t"), MaxRepeat(0, MAXREPEAT, <<In(CategorySpace)>>),
        Literal("o"), Literal("f"), MaxRepeat(0, MAXREPEAT,
        <<In(CategorySpace)>>), Literal("d"), Literal("i"), Literal("s"),
        Literal("c"), Literal("h"), Literal("a"), Literal("r"), Literal("g"),
        Literal("e"), Literal("]")>>,
        \* r'___+\s*(?:port\s*of\s*)?discharge'
        <<Literal("_"), Literal("_"), MaxRepeat(1, MAXREPEAT,
        <<Literal("_")>>), MaxRepeat(0, MAXREPEAT, <<In(CategorySpace)>>),
        MaxRepeat(0, 1, <<Literal("p"), Literal("o"), Literal("r"),
        Literal("t"), MaxRepeat(0, MAXREPEAT, <<In(CategorySpace)>>),
        Literal("o"), Literal("f"), MaxRepeat(0, MAXREPEAT,
        <<In(CategorySpace)>>)>>), Literal("d"), Literal("i"), Literal("s"),
        Literal("c"), Literal("h"), Literal("a"), Literal("r"), Literal("g"),
        Literal("e")>>,
        \* r'discharge:?\s*___+'
        <<Literal("d"), Literal("i"), Literal("s"), Literal("c"),
        Literal("h"), Literal("a"), Literal("r"), Literal("g"), Literal("e"),
        MaxRepeat(0, 1, <<Literal(":")>>), MaxRepeat(0, MAXREPEAT,
        <<In(CategorySpace)>>), Literal("_"), Literal("_"), MaxRepeat(1,
        MAXREPEAT, <<Literal("_")>>)>>
     >>],
     [key |-> "freight_rate", patterns |-> <<
        \* r'\[freight\s*rate\]'
        <<Literal("["), Literal("f"), Literal("r"), Literal("e"),
        Literal("i"), Literal("g"), Literal("h"), Literal("t"), MaxRepeat(0,
        MAXREPEAT, <<In(CategorySpace)>>), Literal("r"), Literal("a"),
        Literal("t"), Literal("e"), Literal("]")>>,
        \* r'\[freight\]'
        <<Literal("["), Literal("f"), Literal("r"), Literal("e"),
        Literal("i"), Literal("g"), Literal("h"), Literal("t"), Literal("]")>>,
        \* r'___+\s*per\s*(?:metric\s*)?ton'
        <<Literal("_"), Literal("_"), MaxRepeat(1, MAXREPEAT,
        <<Literal("_")>>), MaxRepeat(0, MAXREPEAT, <<In(CategorySpace)>>),
        Literal("p"), Literal("e"), Literal("r"), MaxRepeat(0, MAXREPEAT,
        <<In(CategorySpace)>>), MaxRepeat(0, 1, <<Literal("m"), Literal("e"),
        Literal("t"), Literal("r"), Literal("i"), Literal("c"), MaxRepeat(0,
        MAXREPEAT, <<In(CategorySpace)>>)>>), Literal("t"), Literal("o"),
        Literal("n")>>,
        \* r'freight:?\s*___+'
        <<Literal("f"), Literal("r"), Literal("e"), Literal("i"),
        Literal("g"), Literal("h"), Literal("t"), MaxRepeat(0, 1,
        <<Literal(":")>>), MaxRepeat(0, MAXREPEAT, <<In(CategorySpace)>>),
        Literal("_"), Literal("_"), MaxRepeat(1, MAXREPEAT,
        <<Literal("_")>>)>>,
        \* r'usd?\s*___+\s*per\s*(?:mt|ton)'
        <<Literal("u"), Literal("s"), MaxRepeat(0, 1, <<Literal("d")>>),
        MaxRepeat(0, MAXREPEAT, <<In(CategorySpace)>>), Literal("_"),
        Literal("_"), MaxRepeat(1, MAXREPEAT, <<Literal("_")>>), MaxRepeat(0,
        MAXREPEAT, <<In(CategorySpace)>>), Literal("p"), Literal("e"),
        Literal("r"), MaxRepeat(0, MAXREPEAT, <<In(CategorySpace)>>),
        Branch(<< <<Literal("m"), Literal("t")>>, <<Literal("t"),
        Literal("o"), Literal("n")>> >>)>>
     >>],
     [key |-> "laycan_start", patterns |-> <<
        \* r'\[laycan\s*start\]'
        <<Literal("["), Literal("l"), Literal("a"), Literal("y"),
        Literal("c"), Literal("a"), Literal("n"), MaxRepeat(0, MAXREPEAT,
        <<In(CategorySpace)>>), Literal("s"), Literal("t"), Literal("a"),
        Literal("r"), Literal("t"), Literal("]")>>,
        \* r'\[laydays?\s*commence\]'
        <<Literal("["), Literal("l"), Literal("a"), Literal("y"),
        Literal("d"), Literal("a"), Literal("y"), MaxRepeat(0, 1,
        <<Literal("s")>>), MaxRepeat(0, MAXREPEAT, <<In(CategorySpace)>>),
        Literal("c"), Literal("o"), Literal("m"), Literal("m"), Literal("e"),
        Literal("n"), Literal("c"), Literal("e"), Literal("]")>>,
        \* r'___+\s*lay.*days?'
        <<Literal("_"), Literal("_"), MaxRepeat(1, MAXREPEAT,
        <<Literal("_")>>), MaxRepeat(0, MAXREPEAT, <<In(CategorySpace)>>),
        Literal("l"), Literal("a"), Literal("y"), MaxRepeat(0, MAXREPEAT,
        <<[op |-> "any"]>>), Literal("d"), Literal("a"), Literal("y"), MaxRepeat(0, 1,
        <<Literal("s")>>)>>,
        \* r'laydays?:?\s*___+'
        <<Literal("l"), Literal("a"), Literal("y"), Literal("d"),
        Literal("a"), Literal("y"), MaxRepeat(0, 1, <<Literal("s")>>),
        MaxRepeat(0, 1, <<Literal(":")>>), MaxRepeat(0, MAXREPEAT,
        <<In(CategorySpace)>>), Literal("_"), Literal("_"), MaxRepeat(1,
        MAXREPEAT, <<Literal("_")>>)>>
     >>],
     [key |-> "laycan_end", patterns |-> <<
        \* r'\[laycan\s*end\]'
        <<Literal("["), Literal("l"), Literal("a"), Literal("y"),
        Literal("c"), Literal("a"), Literal("n"), MaxRepeat(0, MAXREPEAT,
        <<In(CategorySpace)>>), Literal("e"), Literal("n"), Literal("d"),
        Literal("]")>>,
        \* r'\[cancelling\]'
        <<Literal("["), Literal("c"), Literal("a"), Literal("n"),
        Literal("c"), Literal("e"), Literal("l"), Literal("l"), Literal("i"),
        Literal("n"), Literal("g"), Literal("]")>>,
        \* r'cancelling:?\s*___+'
        <<Literal("c"), Literal("a"), Literal("n"), Literal("c"),
        Literal("e"), Literal("l"), Literal("l"), Literal("i"), Literal("n"),
        Literal("g"), MaxRepeat(0, 1, <<Literal(":")>>), MaxRepeat(0,
        MAXREPEAT, <<In(CategorySpace)>>), Literal("_"), Literal("_"),
        MaxRepeat(1, MAXREPEAT, <<Literal("_")>>)>>,
        \* r'___+\s*cancelling'
        <<Literal("_"), Literal("_"), MaxRepeat(1, MAXREPEAT,
        <<Literal("_")>>), MaxRepeat(0, MAXREPEAT, <<In(CategorySpace)>>),
        Literal("c"), Literal("a"), Literal("n"), Literal("c"), Literal("e"),
        Literal("l"), Literal("l"), Literal("i"), Literal("n"), Literal("g")>>
     >>],
     [key |-> "demurrage", patterns |-> <<
        \* r'\[demurrage\]'
        <<Literal("["), Literal("d"), Literal("e"), Literal("m"),
        Literal("u"), Literal("r"), Literal("r"), Literal("a"), Literal("g"),
        Literal("e"), Literal("]")>>,
        \* r'___+\s*per\s*day\s*demurrage'
        <<Literal("_"), Literal("_"), MaxRepeat(1, MAXREPEAT,
        <<Literal("_")>>), MaxRepeat(0, MAXREPEAT, <<In(CategorySpace)>>),
        Literal("p"), Literal("e"), Literal("r"), MaxRepeat(0, MAXREPEAT,
        <<In(CategorySpace)>>), Literal("d"), Literal("a"), Literal("y"),
        MaxRepeat(0, MAXREPEAT, <<In(CategorySpace)>>), Literal("d"),
        Literal("e"), Literal("m"), Literal("u"), Literal("r"), Literal("r"),
        Literal("a"), Literal("g"), Literal("e")>>,
        \* r'demurrage:?\s*___+'
        <<Literal("d"), Literal("e"), Literal("m"), Literal("u"),
        Literal("r"), Literal("r"), Literal("a"), Literal("g"), Literal("e"),
        MaxRepeat(0, 1, <<Literal(":")>>), MaxRepeat(0, MAXREPEAT,
        <<In(CategorySpace)>>), Literal("_"), Literal("_"), MaxRepeat(1,
        MAXREPEAT, <<Literal("_")>>)>>,
        \* r'usd?\s*___+\s*per\s*day(?:\s*demurrage)?'
        <<Literal("u"), Literal("s"), MaxRepeat(0, 1, <<Literal("d")>>),
        MaxRepeat(0, MAXREPEAT, <<In(CategorySpace)>>), Literal("_"),
        Literal("_"), MaxRepeat(1, MAXREPEAT, <<Literal("_")>>), MaxRepeat(0,
        MAXREPEAT, <<In(CategorySpace)>>), Literal("p"), Literal("e"),
        Literal("r"), MaxRepeat(0, MAXREPEAT, <<In(CategorySpace)>>),
        Literal("d"), Literal("a"), Literal("y"), MaxRepeat(0, 1,
        <<MaxRepeat(0, MAXREPEAT, <<In(CategorySpace)>>), Literal("d"),
        Literal("e"), Literal("m"), Literal("u"), Literal("r"), Literal("r"),
        Literal("a"), Literal("g"), Literal("e")>>)>>
     >>],
     [key |-> "despatch", patterns |-> <<
        \* r'\[despatch\]'
        <<Literal("["), Literal("d"), Literal("e"), Literal("s"),
        Literal("p"), Literal("a"), Literal("t"), Literal("c"), Literal("h"),
        Literal("]")>>,
        \* r'\[dispatch\]'
        <<Literal("["), Literal("d"), Literal("i"), Literal("s"),
        Literal("p"), Literal("a"), Literal("t"), Literal("c"), Literal("h"),
        Literal("]")>>,
        \* r'___+\s*per\s*day\s*despatch'
        <<Literal("_"), Literal("_"), MaxRepeat(1, MAXREPEAT,
        <<Literal("_")>>), MaxRepeat(0, MAXREPEAT, <<In(CategorySpace)>>),
        Literal("p"), Literal("e"), Literal("r"), MaxRepeat(0, MAXREPEAT,
        <<In(CategorySpace)>>), Literal("d"), Literal("a"), Literal("y"),
        MaxRepeat(0, MAXREPEAT, <<In(CategorySpace)>>), Literal("d"),
        Literal("e"), Literal("s"), Literal("p"), Literal("a"), Literal("t"),
        Literal("c"), Literal("h")>>,
        \* r'despatch:?\s*___+'
        <<Literal("d"), Literal("e"), Literal("s"), Literal("p"),
        Literal("a"), Literal("t"), Literal("c"), Literal("h"), MaxRepeat(0,
        1, <<Literal(":")>>), MaxRepeat(0, MAXREPEAT, <<In(CategorySpace)>>),
        Literal("_"), Literal("_"), MaxRepeat(1, MAXREPEAT,
        <<Literal("_")>>)>>
     >>],
     [key |-> "laytime", patterns |-> <<
        \* r'\[laytime\]'
        <<Literal("["), Literal("l"), Literal("a"), Literal("y"),
        Literal("t"), Literal("i"), Literal("m"), Literal("e"), Literal("]")>>,
        \* r'\[lay.*time\]'
        <<Literal("["), Literal("l"), Literal("a"), Literal("y"), MaxRepeat(0,
        MAXREPEAT, <<[op |-> "any"]>>), Literal("t"), Literal("i"), Literal("m"),
        Literal("e"), Literal("]")>>,
        \* r'___+\s*(?:running\s*)?(?:lay.*)?days?'
        <<Literal("_"), Literal("_"), MaxRepeat(1, MAXREPEAT,
        <<Literal("_")>>), MaxRepeat(0, MAXREPEAT, <<In(CategorySpace)>>),
        MaxRepeat(0, 1, <<Literal("r"), Literal("u"), Literal("n"),
        Literal("n"), Literal("i"), Literal("n"), Literal("g"), MaxRepeat(0,
        MAXREPEAT, <<In(CategorySpace)>>)>>), MaxRepeat(0, 1, <<Literal("l"),
        Literal("a"), Literal("y"), MaxRepeat(0, MAXREPEAT, <<[op |-> "any"]>>)>>),
        Literal("d"), Literal("a"), Literal("y"), MaxRepeat(0, 1,
        <<Literal("s")>>)>>,
        \* r'laytime:?\s*___+'
        <<Literal("l"), Literal("a"), Literal("y"), Literal("t"),
        Literal("i"), Literal("m"), Literal("e"), MaxRepeat(0, 1,
        <<Literal(":")>>), MaxRepeat(0, MAXREPEAT, <<In(CategorySpace)>>),
        Literal("_"), Literal("_"), MaxRepeat(1, MAXREPEAT,
        <<Literal("_")>>)>>
     >>],
     [key |-> "notice_time", patterns |-> <<
        \* r'\[notice\]'
        <<Literal("["), Literal("n"), Literal("o"), Literal("t"),
        Literal("i"), Literal("c"), Literal("e"), Literal("]")>>,
        \* r'\[notice\s*time\]'
        <<Literal("["), Literal("n"), Literal("o"), Literal("t"),
        Literal("i"), Literal("c"), Literal("e"), MaxRepeat(0, MAXREPEAT,
        <<In(CategorySpace)>>), Literal("t"), Literal("i"), Literal("m"),
        Literal("e"), Literal("]")>>,
        \* r'___+\s*hours?\s*notice'
        <<Literal("_"), Literal("_"), MaxRepeat(1, MAXREPEAT,
        <<Literal("_")>>), MaxRepeat(0, MAXREPEAT, <<In(CategorySpace)>>),
        Literal("h"), Literal("o"), Literal("u"), Literal("r"), MaxRepeat(0,
        1, <<Literal("s")>>), MaxRepeat(0, MAXREPEAT, <<In(CategorySpace)>>),
        Literal("n"), Literal("o"), Literal("t"), Literal("i"), Literal("c"),
        Literal("e")>>,
        \* r'notice:?\s*___+'
        <<Literal("n"), Literal("o"), Literal("t"), Literal("i"),
        Literal("c"), Literal("e"), MaxRepeat(0, 1, <<Literal(":")>>),
        MaxRepeat(0, MAXREPEAT, <<In(CategorySpace)>>), Literal("_"),
        Literal("_"), MaxRepeat(1, MAXREPEAT, <<Literal("_")>>)>>
     >>]
    >>

----------------------------------------------------------------------------
(* RecapParser._extract_terms, TemplateParser._extract_fields and
   TemplatePreprocessor._structure_fields *)

\* str.lower() on the characters of the model
Lower(text) ==
    LET upper == <<"A", "B", "C", "D", "E", "F", "G", "H", "I", "J", "K", "L",
                   "M", "N", "O", "P", "Q", "R", "S", "T", "U", "V", "W", "X",
                   "Y", "Z">>
        lower == <<"a", "b", "c", "d", "e", "f", "g", "h", "i", "j", "k", "l",
                   "m", "n", "o", "p", "q", "r", "s", "t", "u", "v", "w", "x",
                   "y", "z">>
    IN  [i \in 1..Len(text) |->
            IF \E k \in 1..26 : upper[k] = text[i]
            THEN lower[CHOOSE k \in 1..26 : upper[k] = text[i]]
            ELSE text[i]]

\* the loop over the patterns of one term type: the dictionaries the
\* matches of the patterns are turned into (lines 226-235)
RECURSIVE PatternMatches(_, _)
PatternMatches(patterns, text_lower) ==
    IF patterns = <<>> THEN <<>>
    ELSE LET regex_matches == FindIter(Head(patterns), text_lower, 0)
         IN  [k \in 1..Len(regex_matches) |->
                [value      |-> Strip(Slice(text_lower,
                                            regex_matches[k].group1[1],
                                            regex_matches[k].group1[2])),
                 full_match |-> Strip(Slice(text_lower,
                                            regex_matches[k].span[1],
                                            regex_matches[k].span[2])),
                 confidence |-> 80,
                 position   |-> regex_matches[k].span]]
             \o PatternMatches(Tail(patterns), text_lower)

\* the loop over term_patterns.items()
RECURSIVE ExtractTermsFrom(_, _)
ExtractTermsFrom(entries, text_lower) ==
    IF entries = <<>> THEN <<>>
    ELSE LET found == PatternMatches(Head(entries).patterns, text_lower)
         IN  (IF found # <<>>
              THEN <<[key |-> Head(entries).key,
                      matches |-> DeduplicateMatches(found)]>>
              ELSE <<>>)
             \o ExtractTermsFrom(Tail(entries), text_lower)

\* RecapParser._extract_terms
ExtractTerms(text) == ExtractTermsFrom(term_patterns, Lower(text))

\* TemplateParser._get_context
GetContext(text, position, context_length) ==
    Strip(Slice(text, Max(0, position[1] - context_length),
                Min(Len(text), position[2] + context_length)))

\* a field is a duplicate only of a field with the same span
IsDuplicateFieldSameSpan(existing_fields, new_field) ==
    \E k \in 1..Len(existing_fields) :
        existing_fields[k].position = new_field.position

\* TemplateParser._is_duplicate_field
IsDuplicateField(existing_fields, new_field) ==
    \E k \in 1..Len(existing_fields) :
        /\ existing_fields[k].position[1] <= new_field.position[2]
        /\ existing_fields[k].position[2] >= new_field.position[1]

\* the loop over the patterns of one field type: the field dictionaries
\* of the matches of the patterns (lines 279-289)
RECURSIVE PatternFields(_, _, _, _)
PatternFields(field_type, patterns, text, text_lower) ==
    IF patterns = <<>> THEN <<>>
    ELSE LET regex_matches == FindIter(Head(patterns), text_lower, 0)
         IN  [k \in 1..Len(regex_matches) |->
                [type       |-> field_type,
                 match      |-> Slice(text_lower, regex_matches[k].span[1],
                                      regex_matches[k].span[2]),
                 position   |-> regex_matches[k].span,
                 context    |-> GetContext(text, regex_matches[k].span, 50),
                 confidence |-> 80]]
             \o PatternFields(field_type, Tail(patterns), text, text_lower)

\* the loop over field_patterns.items(): the field dictionaries in the
\* order in which the loops build them
RECURSIVE TypeFields(_, _, _)
TypeFields(entries, text, text_lower) ==
    IF entries = <<>> THEN <<>>
    ELSE PatternFields(Head(entries).key, Head(entries).patterns,
                       text, text_lower)
             \o TypeFields(Tail(entries), text, text_lower)

\* a loop in which a match displaces the accepted fields it overlaps
RECURSIVE AddFieldsLaterWins(_, _)
AddFieldsLaterWins(fields, candidates) ==
    IF candidates = <<>> THEN fields
    ELSE AddFieldsLaterWins(
             Append(SelectSeq(fields,
                              LAMBDA field :
                                  ~IsDuplicateField(<<field>>, Head(candidates))),
                    Head(candidates)),
             Tail(candidates))

\* "if not self._is_duplicate_field(fields, field): fields.append(field)"
\* for the field dictionaries in that order
RECURSIVE AddFields(_, _)
AddFields(fields, candidates) ==
    IF candidates = <<>> THEN fields
    ELSE AddFields(IF IsDuplicateField(fields, Head(candidates))
                   THEN fields ELSE Append(fields, Head(candidates)),
                   Tail(candidates))

\* TemplateParser._extract_fields: the fields, sorted by position
ExtractFields(text) ==
    LET fields == AddFields(<<>>, TypeFields(field_patterns, text, Lower(text)))
    IN  Permute(fields,
                SortPerm([i \in 1..Len(fields) |-> <<fields[i].position[1]>>]))

\* TemplatePreprocessor.template_configs[...]['required_fields']
RequiredFields(config_name) ==
    CASE config_name = "NYPE" ->
            <<"vessel_name", "charterer", "owner", "hire_rate",
              "charter_period", "trading_limits", "delivery_port">>
      [] config_name = "SHELLTIME" ->
            <<"vessel_name", "charterer", "owner", "hire_rate",
              "charter_period", "delivery_port", "redelivery_port">>
      [] OTHER ->
            <<"vessel_name", "charterer", "owner", "cargo",
              "quantity", "load_port", "discharge_port", "freight_rate">>

\* TemplatePreprocessor._calculate_fill_priority; int(0.8 * 20) is 16
CalculateFillPriority(field, required_fields) ==
    50 + (IF InSeq(field.type, required_fields) THEN 30 ELSE 0)
       + (field.confidence * 20) \div 100
       + (IF field.position[1] < 1000
          THEN Max(0, 20 - (field.position[1] \div 100)) ELSE 0)

\* TemplatePreprocessor._structure_fields: the ids follow the order of the
\* parsed fields, the list is sorted by descending fill priority
StructureFields(fields, config_name) ==
    LET structured ==
            [i \in 1..Len(fields) |->
                [id            |-> i,
                 type          |-> fields[i].type,
                 position      |-> fields[i].position,
                 context       |-> fields[i].context,
                 required      |-> InSeq(fields[i].type, RequiredFields(config_name)),
                 fill_priority |-> CalculateFillPriority(fields[i],
                                       RequiredFields(config_name))]]
    IN  Permute(structured,
                SortPermReverse([i \in 1..Len(structured) |->
                                    <<structured[i].fill_priority>>]))

----------------------------------------------------------------------------
(* A session of the API: the template is uploaded, parsed and preprocessed,
   the recap is uploaded and parsed, a charter party is generated *)

\* the recap of the end-to-end scenario
ScenarioRecap ==
    <<"V", "e", "s", "s", "e", "l", ":", " ", "O", "C", "E", "A", "N", " ",
      "S", "T", "A", "R", "\n", "F", "r", "e", "i", "g", "h", "t", ":", " ",
      "U", "S", "D", " ", "2", "5", ".", "5", "0", " ", "p", "e", "r", " ",
      "M", "T", "\n", "C", "a", "r", "g", "o", ":", " ", "5", "0", "0", "0",
      "0", " ", "M", "T", " ", "I", "r", "o", "n", " ", "O", "r", "e">>

RecapTexts ==
    {ScenarioRecap,
     <<"F", "r", "e", "i", "g", "h", "t", ":", " ", "$", "2", "5", ".", "5",
       "0", " ", "p", "e", "r", " ", "M", "T", "\n", "V", "e", "s", "s", "e",
       "l", ":", " ", "O", "C", "E", "A", "N", " ", "S", "T", "A", "R">>,
     <<"C", "a", "r", "g", "o", ":", " ", "a">>,
     <<>>}

\* the paragraphs of the uploaded templates (.docx files without tables);
\* the templates are shorter than the context window, so that every field
\* has the whole text as its context and one similarity vector serves every
\* field
TemplateDocuments ==
    {<< <<"[", "V", "e", "s", "s", "e", "l", " ", "N", "a", "m", "e", "]", " ",
          "[", "F", "r", "e", "i", "g", "h", "t", " ", "R", "a", "t", "e", "]",
          " ", "[", "C", "a", "r", "g", "o", "]">> >>,
     << <<"[", "v", "e", "s", "s", "e", "l", "]", " ", "c", "a", "r", "g",
          "o">> >>,
     << <<"V", "e", "s", "s", "e", "l", ":", " ", "_", "_", "_">>,
        <<"F", "r", "e", "i", "g", "h", "t", ":", " ", "_", "_", "_">>,
        <<"C", "a", "r", "g", "o", ":", " ", "_", "_", "_">> >>,
     << <<"[", "C", "a", "r", "g", "o", "]", " ", "_", "_", "_", " ", "v",
          "e", "s", "s", "e", "l", ":", " ", "_", "_", "_">> >>,
     << <<"[", "v", "e", "s", "s", "e", "l", "]", "[", "c", "a", "r", "g",
          "o", "]">> >>,
     <<>>}

\* the text TemplateParser._extract_from_docx returns for them
TemplateTexts ==
    {ParagraphsText(paragraphs) : paragraphs \in TemplateDocuments}

\* the words of a text: what the model lets spaCy recognise as an entity
WordSpans(text) ==
    {sp \in (0..Len(text)) \X (0..Len(text)) :
        /\ sp[1] < sp[2]
        /\ sp[1] = 0 \/ text[sp[1]] \in Whitespace
        /\ sp[2] = Len(text) \/ text[sp[2] + 1] \in Whitespace
        /\ \A i \in (sp[1] + 1)..sp[2] : text[i] \notin Whitespace}

InitSession ==
    /\ pc = "upload_template"
    /\ template_text \in TemplateTexts
    /\ recap_text \in RecapTexts
    /\ template_type \in {"GENCON", "NYPE"}
    /\ RequestIdle
    /\ GenIdle
    /\ matches = <<>> /\ unique_matches = <<>> /\ rerun_matches = <<>>
    /\ file = [ext |-> ""]
    /\ libs_available = TRUE
    /\ extraction = None
    /\ file_reads = 0

\* upload_template: TemplateParser.parse and TemplatePreprocessor.process
UploadTemplate ==
    /\ pc = "upload_template"
    /\ template_text # <<>>
    /\ original_text' = template_text
    /\ \E fields \in {ExtractFields(template_text)} :
          structured_fields' = StructureFields(fields, template_type)
    /\ pc' = "upload_recap"
    /\ UNCHANGED <<recap_data, output_format, docx_available, vectorizer,
                   similarities, recap_terms, field_mappings, filled_text,
                   filled_document, changes, validation, statistics,
                   dedupVars, extractVars, uploadVars, requestVars, docxVars>>

\* TemplateParser.parse raising "No text could be extracted from the
\* template"
UploadTemplateFails ==
    /\ pc = "upload_template"
    /\ template_text = <<>>
    /\ pc' = "error"
    /\ UNCHANGED <<genVars, dedupVars, extractVars, uploadVars, requestVars,
                   docxVars>>

\* upload_recap: RecapParser.parse; doc.ents is what spaCy finds (up to
\* MaxNerEntities words with a label that _perform_nlp_analysis keeps),
\* nothing when the language model is not installed
UploadRecap ==
    /\ pc = "upload_recap"
    /\ recap_text # <<>>
    /\ \E terms \in {ExtractTerms(recap_text)}, n \in 0..MaxNerEntities :
          \E spans \in [1..n -> WordSpans(recap_text)],
             labels \in [1..n -> {"ORG", "MONEY", "PRODUCT"}] :
              /\ \A i, j \in 1..n : i < j => spans[i][2] <= spans[j][1]
              /\ recap_data' =
                    [terms    |-> terms,
                     entities |->
                        [i \in 1..n |->
                            [text       |-> Slice(recap_text, spans[i][1],
                                                  spans[i][2]),
                             label      |-> labels[i],
                             confidence |-> 80,
                             start      |-> spans[i][1],
                             end        |-> spans[i][2]]]]
    /\ pc' = "request"
    /\ UNCHANGED <<structured_fields, original_text, output_format,
                   docx_available, vectorizer, similarities, recap_terms,
                   field_mappings, filled_text, filled_document, changes,
                   validation, statistics, dedupVars, extractVars, uploadVars, requestVars,
                   docxVars>>

\* RecapParser.parse raising "No text could be extracted from the file"
UploadRecapFails ==
    /\ pc = "upload_recap"
    /\ recap_text = <<>>
    /\ pc' = "error"
    /\ UNCHANGED <<genVars, dedupVars, extractVars, uploadVars, requestVars,
                   docxVars>>

\* generate_charter_party is called with an output format; whether
\* python-docx and scikit-learn were importable is read only from here on
RequestGeneration ==
    /\ pc = "request"
    /\ output_format' \in {"text", "docx"}
    /\ docx_available' \in IF output_format' = "docx" THEN BOOLEAN ELSE {TRUE}
    /\ vectorizer' \in BOOLEAN
    /\ request' = [front_end |-> "main", template_stored |-> TRUE,
                   recap_stored |-> TRUE]
    /\ pc' = "generate"
    /\ UNCHANGED <<recap_data, structured_fields, original_text, similarities,
                   recap_terms, field_mappings, filled_text, filled_document,
                   changes, validation, statistics, dedupVars, extractVars,
                   uploadVars, outcome, documents_db, docxVars>>

\* raise HTTPException(status_code=..., detail=...)
HTTPException(status_code, detail) ==
    [raised |-> "HTTPException", status_code |-> status_code, detail |-> detail]

\* the except clause of generate_charter_party in main.py (lines 212-214),
\* which encloses the whole body of the handler; message is str(e)
ApiExcept(message) ==
    HTTPException(500, <<"Error generating charter party: ">> \o message)

\* generate_charter_party of main.py (lines 175-180) and of simple_app.py
\* (lines 162-167) for a request that names a template id or a recap id
\* that is not stored. In main.py the HTTPException of line 180 is raised
\* inside the try block and caught by "except Exception"; its str() is
\* "404: Template or recap not found" or empty, by the version of the
\* framework
RequestNotFound ==
    /\ pc = "request"
    /\ \E front_end \in {"main", "simple_app"},
          template_stored, recap_stored \in BOOLEAN,
          str_e \in {<<>>, <<"404: Template or recap not found">>} :
          /\ ~(template_stored /\ recap_stored)
          /\ front_end = "simple_app" => str_e = <<>>
          /\ request' = [front_end |-> front_end,
                         template_stored |-> template_stored,
                         recap_stored |-> recap_stored]
          /\ outcome' =
                IF front_end = "main" THEN ApiExcept(str_e)
                ELSE IF ~template_stored
                THEN HTTPException(404, <<"Template not found">>)
                ELSE HTTPException(404, <<"Recap document not found">>)
    /\ pc' = "rejected"
    /\ UNCHANGED <<genVars, dedupVars, extractVars, uploadVars, documents_db,
                   docxVars>>

\* generate_charter_party of main.py after cp_generator.generate (lines
\* 189-214): the document is saved, its record stored and the response
\* returned; an exception of generate or of the save becomes the
\* HTTPException of the except clause
ApiRespond ==
    /\ pc \in {"done", "error"}
    /\ request # None
    /\ \E save_succeeds \in BOOLEAN :
          IF pc = "error" \/ ~save_succeeds
          THEN /\ outcome' = ApiExcept(IF pc = "error" THEN outcome.message
                                       ELSE <<"Permission denied">>)
               /\ documents_db' = documents_db
          ELSE /\ outcome' = [result |->
                                 [cp_id         |-> Len(documents_db) + 1,
                                  changes_count |-> Len(changes),
                                  format        |-> output_format,
                                  status        |-> "generated"]]
               /\ documents_db' =
                     Append(documents_db,
                            [changes_tracked |-> changes,
                             format          |-> output_format])
    /\ pc' = "responded"
    /\ UNCHANGED <<genVars, dedupVars, extractVars, uploadVars, request, docxVars>>

SpecSession ==
    InitSession
        /\ [][\/ UploadTemplate
              \/ UploadTemplateFails
              \/ UploadRecap
              \/ UploadRecapFails
              \/ RequestGeneration
              \/ RequestNotFound
              \/ Generate
              \/ GenerateRaises
              \/ ApiRespond]_vars

\* C13: the fields that _extract_fields returned for the uploaded template
\* (field i of its list is the structured field with id i) have pairwise
\* non-overlapping spans and are in ascending order of span start.
C13_FieldsDisjointAndSorted ==
    pc \notin {"upload_template", "error"} =>
        \A i, j \in 1..Len(structured_fields) :
            LET a == structured_fields[i]
                b == structured_fields[j]
            IN  /\ i # j => ~Overlap(a.position, b.position)
                /\ a.id < b.id => a.position[1] <= b.position[1]
                /\ a.id = b.id => i = j

\* a template in which a pattern match was discarded as a duplicate of a
\* field and the sort moved the last field found to the front
C13_Witness ==
    /\ pc = "upload_recap"
    /\ Len(structured_fields) = 2
    /\ Len(TypeFields(field_patterns, original_text, Lower(original_text))) = 3
    /\ \E i \in 1..2 :
          /\ structured_fields[i].id = 1
          /\ structured_fields[i].type = "cargo"
          /\ structured_fields[i].position = <<0, 7>>

\* the matches of the field patterns in the uploaded template, in the scan
\* order: field types, then patterns, then text order
ScanOrder == TypeFields(field_patterns, original_text, Lower(original_text))

\* candidate k of the scan became a field: a structured field has its type
\* and span, and no earlier candidate has that span
KeptOf(candidates, k) ==
    /\ \E i \in 1..Len(structured_fields) :
          /\ structured_fields[i].position = candidates[k].position
          /\ structured_fields[i].type = candidates[k].type
    /\ \A j \in 1..(k - 1) : candidates[j].position # candidates[k].position

\* C22: of two matches with overlapping spans at most the one discovered
\* first in the scan order is a field, wherever the later one lies and
\* however long it is; a match is dropped only for an accepted field that
\* was discovered before it, and every field is a match of the scan.
C22_FirstComeFirstKept ==
    pc = "upload_recap" =>
        \A candidates \in {ScanOrder} :
            /\ \A j, k \in 1..Len(candidates) :
                   (j < k /\ KeptOf(candidates, j)
                          /\ Overlap(candidates[j].position,
                                     candidates[k].position))
                       => ~KeptOf(candidates, k)
            /\ \A k \in 1..Len(candidates) :
                   ~KeptOf(candidates, k) =>
                       \E j \in 1..(k - 1) :
                           /\ KeptOf(candidates, j)
                           /\ IsDuplicateField(<<candidates[j]>>, candidates[k])
            /\ Len(structured_fields)
                   = Cardinality({k \in 1..Len(candidates) :
                                     KeptOf(candidates, k)})

\* the later match 'freight: ___' starts before the accepted field
\* '___ cargo', which it overlaps, and is dropped
C22_Witness ==
    /\ pc = "upload_recap"
    /\ \E candidates \in {ScanOrder} :
          \E j, k \in 1..Len(candidates) :
              /\ j < k
              /\ KeptOf(candidates, j)
              /\ ~KeptOf(candidates, k)
              /\ candidates[j].type = "cargo"
              /\ candidates[k].type = "freight_rate"
              /\ candidates[k].position[1] < candidates[j].position[1]
              /\ Overlap(candidates[j].position, candidates[k].position)

\* C28: two matches of the field patterns of which one ends exactly where
\* the other begins, and which share no character with any other match, are
\* both fields of the template
C28_TouchingSpansKept ==
    pc = "upload_recap" =>
        \A candidates \in {ScanOrder} :
            \A i, j \in 1..Len(candidates) :
                (/\ candidates[i].position[2] = candidates[j].position[1]
                 /\ candidates[i].position[1] < candidates[i].position[2]
                 /\ candidates[j].position[1] < candidates[j].position[2]
                 /\ \A k \in 1..Len(candidates) \ {i, j} :
                        /\ ~Overlap(candidates[k].position,
                                    candidates[i].position)
                        /\ ~Overlap(candidates[k].position,
                                    candidates[j].position))
                    => \A c \in {candidates[i], candidates[j]} :
                           \E f \in 1..Len(structured_fields) :
                               /\ structured_fields[f].type = c.type
                               /\ structured_fields[f].position = c.position

\* the template "[vessel][cargo]": the match of the cargo placeholder
\* begins where the vessel placeholder ends, and the vessel placeholder is
\* the only field
C28_TouchingDropped ==
    /\ pc = "upload_recap"
    /\ Len(ScanOrder) = 2
    /\ ScanOrder[1].position = <<0, 8>>
    /\ ScanOrder[2].position = <<8, 15>>
    /\ Len(structured_fields) = 1
    /\ structured_fields[1].type = "vessel_name"

\* C17: a generation request that names a template id or a recap id that
\* is not stored is answered, by either front end, with the status 404,
\* which no internal processing failure has, and stores no
\* generated-document record.
C17_NotFoundDistinguishable ==
    pc = "rejected" =>
        /\ IsRaised(outcome)
        /\ outcome.status_code = 404
        /\ documents_db = <<>>

\* text[i:i + len(sub)] == sub for some i
Contains(text, sub) ==
    \E i \in 0..(Len(text) - Len(sub)) : Slice(text, i, i + Len(sub)) = sub

\* the template has exactly one placeholder for each of the vessel name, the
\* freight rate and the cargo
ScenarioTemplate ==
    /\ Len(structured_fields) = 3
    /\ {structured_fields[i].type : i \in 1..3}
           = {"vessel_name", "freight_rate", "cargo"}

\* C2: for the scenario recap and a template whose only placeholders are
\* those of the vessel name, the freight rate and the cargo, the generated
\* text contains "OCEAN STAR", "25.50" and "50000", three fields are
\* reported filled and the completeness score is 1.0
C2_EndToEndScenario ==
    (pc = "done" /\ recap_text = ScenarioRecap /\ ScenarioTemplate) =>
        /\ Contains(filled_text, <<"O", "C", "E", "A", "N", " ", "S", "T", "A", "R">>)
        /\ Contains(filled_text, <<"2", "5", ".", "5", "0">>)
        /\ Contains(filled_text, <<"5", "0", "0", "0", "0">>)
        /\ statistics.fields_filled = 3
        /\ validation.completeness_score = <<3, 3>>

(***************************************************************************)
(* Template family identification: TemplateParser._identify_template_type  *)
(***************************************************************************)

\* self.template_identifiers, in the order of the dict literal
template_identifiers ==
    <<[key |-> "GENCON",
       identifiers |-> <<
           <<"g", "e", "n", "c", "o", "n">>,
           <<"g", "e", "n", "e", "r", "a", "l", " ", "c", "a", "r", "g", "o">>,
           <<"u", "n", "i", "f", "o", "r", "m", " ", "g", "e", "n", "e", "r",
             "a", "l", " ", "c", "h", "a", "r", "t", "e", "r">>,
           <<"d", "r", "y", " ", "c", "a", "r", "g", "o", " ", "c", "h", "a",
             "r", "t", "e", "r">> >>],
      [key |-> "NYPE",
       identifiers |-> <<
           <<"n", "y", "p", "e">>,
           <<"n", "e", "w", " ", "y", "o", "r", "k", " ", "p", "r", "o", "d",
             "u", "c", "e", " ", "e", "x", "c", "h", "a", "n", "g", "e">>,
           <<"t", "i", "m", "e", " ", "c", "h", "a", "r", "t", "e", "r">>,
           <<"n", "e", "w", " ", "y", "o", "r", "k", " ", "p", "r", "o", "d",
             "u", "c", "e">> >>],
      [key |-> "SHELLTIME",
       identifiers |-> <<
           <<"s", "h", "e", "l", "l", "t", "i", "m", "e">>,
           <<"s", "h", "e", "l", "l", " ", "t", "i", "m", "e", " ", "c", "h",
             "a", "r", "t", "e", "r">>,
           <<"s", "h", "e", "l", "l", " ", "i", "n", "t", "e", "r", "n", "a",
             "t", "i", "o", "n", "a", "l">> >>],
      [key |-> "ASBATANKVOY",
       identifiers |-> <<
           <<"a", "s", "b", "a", "t", "a", "n", "k", "v", "o", "y">>,
           <<"a", "s", "b", "a", " ", "t", "a", "n", "k", "e", "r">>,
           <<"a", "m", "e", "r", "i", "c", "a", "n", " ", "s", "t", "a", "n",
             "d", "a", "r", "d">> >>] >>

\* the family whose phrases are found last: the loop of
\* _identify_template_type run over the families in reverse
IdentifyTemplateTypeLast(text) ==
    LET text_lower == Lower(text)
        RECURSIVE Families(_)
        Families(i) ==
            IF i < 1 THEN "UNKNOWN"
            ELSE IF \E j \in 1..Len(template_identifiers[i].identifiers) :
                        Contains(text_lower,
                                 Lower(template_identifiers[i].identifiers[j]))
                 THEN template_identifiers[i].key
                 ELSE Families(i - 1)
    IN  Families(Len(template_identifiers))

\* TemplateParser._identify_template_type: the loop over the families returns
\* at the first identifier found in text.lower()
IdentifyTemplateType(text) ==
    LET text_lower == Lower(text)
        RECURSIVE Families(_)
        Families(i) ==
            IF i > Len(template_identifiers) THEN "UNKNOWN"
            ELSE IF \E j \in 1..Len(template_identifiers[i].identifiers) :
                        Contains(text_lower,
                                 Lower(template_identifiers[i].identifiers[j]))
                 THEN template_identifiers[i].key
                 ELSE Families(i + 1)
    IN  Families(1)

\* the texts to identify: at most MaxWords words, separated by spaces
InitIdentify ==
    /\ pc = "identify"
    /\ template_text \in
            LET IdentifyWords ==
                    <<<<"G", "E", "N", "C", "O", "N">>,
                      <<"U", "n", "i", "f", "o", "r", "m", " ", "G", "e", "n", "e", "r", "a",
                        "l", " ", "C", "h", "a", "r", "t", "e", "r">>,
                      <<"g", "e", "n", "e", "r", "a", "l">>,
                      <<"c", "a", "r", "g", "o">>,
                      <<"T", "i", "m", "e", " ", "C", "h", "a", "r", "t", "e", "r">>,
                      <<"n", "y", "p", "e">>,
                      <<"S", "h", "e", "l", "l", "T", "i", "m", "e">>,
                      <<"S", "h", "e", "l", "l">>,
                      <<"A", "S", "B", "A", " ", "T", "a", "n", "k", "e", "r">>,
                      <<"a", "m", "e", "r", "i", "c", "a", "n", " ", "s", "t", "a", "n", "d",
                        "a", "r", "d">>,
                      <<"c", "h", "a", "r", "t", "e", "r", " ", "p", "a", "r", "t", "y">>,
                      <<"r", "a", "n", "d", "o", "m">> >>
                RECURSIVE JoinWords(_)
                JoinWords(ws) ==
                    IF ws = <<>> THEN <<>>
                    ELSE IF Len(ws) = 1 THEN IdentifyWords[ws[1]]
                    ELSE IdentifyWords[ws[1]] \o <<" ">> \o JoinWords(Tail(ws))
            IN  {JoinWords(ws) : ws \in UNION {[1..n -> 1..Len(IdentifyWords)] :
                                                   n \in 0..MaxWords}}
    /\ recap_text = <<>>
    /\ template_type = "GENCON"
    /\ RequestIdle
    /\ file = [ext |-> ""]
    /\ libs_available = TRUE
    /\ extraction = None
    /\ file_reads = 0
    /\ matches = <<>> /\ unique_matches = <<>> /\ rerun_matches = <<>>
    /\ GenIdle

\* a call of _identify_template_type on the text of a template
IdentifyStep ==
    /\ pc = "identify"
    /\ outcome' = [result |-> IdentifyTemplateType(template_text)]
    /\ pc' = "identified"
    /\ UNCHANGED <<genVars, dedupVars, extractVars, uploadVars, request,
                   documents_db, docxVars>>

SpecIdentify == InitIdentify /\ [][IdentifyStep]_vars

\* the families of which a phrase occurs in the text, letters compared without
\* regard to case
FamiliesOccurring ==
    LET SameLetter(a, b) == Lower(<<a>>) = Lower(<<b>>)
        Occurs(phrase) ==
            \E off \in 0..(Len(template_text) - Len(phrase)) :
                \A c \in 1..Len(phrase) :
                    SameLetter(template_text[off + c], phrase[c])
    IN  {k \in 1..Len(template_identifiers) :
            \E j \in 1..Len(template_identifiers[k].identifiers) :
                Occurs(template_identifiers[k].identifiers[j])}

\* C23: the family returned is the first of GENCON, NYPE, SHELLTIME,
\* ASBATANKVOY of which a phrase occurs in the text case-insensitively, and
\* "UNKNOWN" is returned if and only if no phrase of any family occurs
C23_FirstFamilyInDeclaredOrder ==
    pc = "identified" =>
        LET declared == <<"GENCON", "NYPE", "SHELLTIME", "ASBATANKVOY">>
        IN  /\ \A k \in 1..4 :
                   outcome.result = declared[k]
                       <=> /\ k \in FamiliesOccurring
                           /\ \A h \in 1..(k - 1) : h \notin FamiliesOccurring
            /\ outcome.result = "UNKNOWN" <=> FamiliesOccurring = {}

\* a text with phrases of NYPE and of SHELLTIME was identified as NYPE
C23_Witness ==
    /\ pc = "identified"
    /\ FamiliesOccurring = {2, 3}
    /\ outcome.result = "NYPE"

(***************************************************************************)
(* The text of a PDF file                                                  *)
(***************************************************************************)

\* the texts of the pages from page i on, each once and followed by a
\* newline; pages without text are left out or give the newline alone
RECURSIVE PagesOnce(_, _, _)
PagesOnce(pages, i, keep_empty) ==
    IF i > Len(pages) THEN <<>>
    ELSE (IF pages[i] # <<>> \/ keep_empty THEN pages[i] \o <<"\n">> ELSE <<>>)
             \o PagesOnce(pages, i + 1, keep_empty)

\* C25: the text returned for a PDF file, one of whose backends read it to
\* the end, consists of the text of each page exactly once, in page order,
\* each followed by a newline, also when pdfplumber raised after some pages
\* and PyPDF2 took over
C25_PdfPagesOnceInOrder ==
    (/\ pc \in {"recap_extracted", "template_extracted", "processor_extracted"}
     /\ LowerExt(file.ext) = ".pdf"
     /\ ~ IsRaised(extraction)
     /\ file.plumber_fails_at = -1 \/ file.pypdf_fails_at = -1)
        => \E pages \in {file.plumber_pages, file.pypdf_pages},
              keep_empty \in BOOLEAN :
               extraction.text = PagesOnce(pages, 1, keep_empty)

\* pdfplumber raised at the second page and PyPDF2 read both pages: the
\* first page is in the text twice
C25_PageTwice ==
    /\ pc \in {"recap_extracted", "template_extracted", "processor_extracted"}
    /\ LowerExt(file.ext) = ".pdf"
    /\ file.plumber_fails_at = 2
    /\ file.pypdf_fails_at = -1
    /\ ~ IsRaised(extraction)
    /\ extraction.text = PageText(1) \o <<"\n">> \o PageText(1) \o <<"\n">>
                             \o PageText(2) \o <<"\n">>

(***************************************************************************)
(* DocumentProcessor._process_paragraph on a paragraph of the template     *)
(***************************************************************************)

\* para.text: the texts of the runs of the paragraph, one after the other
RECURSIVE ParaText(_)
ParaText(runs) ==
    IF runs = <<>> THEN <<>> ELSE Head(runs).text \o ParaText(Tail(runs))

\* RGBColor(r, g, b) of docx.shared
RGBColor(r, g, b) == [r |-> r, g |-> g, b |-> b]

\* the mappings that update_cp_template builds of recap_data: the fields of
\* a value that is not empty, under their placeholders f"{{${field}}}"
RECURSIVE FieldMappings(_)
FieldMappings(data) ==
    IF data = <<>> THEN <<>>
    ELSE (IF Head(data).value # <<>>
          THEN <<[key   |-> <<"{", "$">> \o Head(data).key \o <<"}">>,
                  value |-> Head(data).value]>>
          ELSE <<>>)
         \o FieldMappings(Tail(data))

\* r'\{\$(\w+)\}', with \w on the characters of the model
placeholder_pattern ==
    LET CategoryWord == {"a", "b", "c", "x", "V", "W", "_"} \cup CategoryDigit
    IN  <<Literal("{"), Literal("$"),
          Subpattern(1, <<MaxRepeat(1, MAXREPEAT, <<In(CategoryWord)>>)>>),
          Literal("}")>>

\* _process_paragraph with the run of every placeholder set in bold and red,
\* whether a value took its place or not
ProcessParagraphMarkAll(para, mappings) ==
    LET text == ParaText(para)
        found == FindIter(placeholder_pattern, text, 0)
        \* para.add_run(s): font.bold is not set, font.color.rgb is None
        AddRun(runs, s) == Append(runs, [text |-> s, bold |-> FALSE,
                                         rgb |-> None])
        RECURSIVE Loop(_, _, _)
        Loop(runs, current_pos, i) ==
            IF i > Len(found)
            THEN IF current_pos < Len(text)
                 THEN AddRun(runs, SliceFrom(text, current_pos))
                 ELSE runs
            ELSE LET start == found[i].span[1]
                     end   == found[i].span[2]
                     before == IF start > current_pos
                               THEN AddRun(runs, Slice(text, current_pos, start))
                               ELSE runs
                     placeholder == Slice(text, start, end)
                     value == IF HasKey(mappings, placeholder)
                              THEN Get(mappings, placeholder).value
                              ELSE placeholder
                 IN  Loop(Append(before, [text |-> value, bold |-> TRUE,
                                          rgb |-> RGBColor(255, 0, 0)]),
                          end, i + 1)
    IN  IF found = <<>> THEN para ELSE Loop(<<>>, 0, 1)

\* DocumentProcessor._process_paragraph: the runs of the paragraph after the
\* call; without a match the paragraph is left as it is, otherwise it is
\* cleared and gets a run for the text before each placeholder, a run for
\* the value or the placeholder itself, and a run for the text that remains
ProcessParagraph(para, mappings) ==
    LET text == ParaText(para)
        found == FindIter(placeholder_pattern, text, 0)
        \* para.add_run(s): font.bold is not set, font.color.rgb is None
        AddRun(runs, s) == Append(runs, [text |-> s, bold |-> FALSE,
                                         rgb |-> None])
        RECURSIVE Loop(_, _, _)
        Loop(runs, current_pos, i) ==
            IF i > Len(found)
            THEN IF current_pos < Len(text)
                 THEN AddRun(runs, SliceFrom(text, current_pos))
                 ELSE runs
            ELSE LET start == found[i].span[1]
                     end   == found[i].span[2]
                     before == IF start > current_pos
                               THEN AddRun(runs, Slice(text, current_pos, start))
                               ELSE runs
                     placeholder == Slice(text, start, end)
                     value == IF HasKey(mappings, placeholder)
                              THEN Get(mappings, placeholder).value
                              ELSE placeholder
                 IN  Loop(IF value # placeholder
                          THEN Append(before, [text |-> value, bold |-> TRUE,
                                               rgb |-> RGBColor(255, 0, 0)])
                          ELSE AddRun(before, value),
                          end, i + 1)
    IN  IF found = <<>> THEN para ELSE Loop(<<>>, 0, 1)

\* a paragraph of at most MaxRuns runs, all set in bold or none, and the recap
\* data: field "a" with no value, a value or its own placeholder as value,
\* field "b" absent or with a value, no field "c" or "x"
InitParagraph ==
    /\ pc = "paragraph"
    /\ \E n \in 0..MaxRuns, bold \in BOOLEAN :
           \E texts \in [1..n -> {<<"x">>, <<"{", "$", "a", "}">>,
                                  <<"{", "$", "b", "}">>,
                                  <<"{", "$", "c", "}">>,
                                  <<"{", "$">>, <<"}">>}] :
               /\ n = 0 => bold = FALSE
               /\ paragraph = [i \in 1..n |->
                                  [text |-> texts[i], bold |-> bold,
                                   rgb |-> None]]
    /\ \E a \in {<<>>, <<"V">>, <<"{", "$", "a", "}">>},
          b \in {<<>>, <<"W", "W">>} :
           recap_data = <<[key |-> <<"a">>, value |-> a]>>
                            \o IF b = <<>> THEN <<>>
                               ELSE <<[key |-> <<"b">>, value |-> b]>>
    /\ structured_fields = <<>> /\ original_text = <<>>
    /\ output_format = "text" /\ docx_available = TRUE /\ vectorizer = FALSE
    /\ similarities = NotCalled
    /\ recap_terms = <<>> /\ field_mappings = <<>>
    /\ filled_text = <<>> /\ filled_document = None
    /\ changes = <<>> /\ validation = None /\ statistics = None
    /\ matches = <<>> /\ unique_matches = <<>> /\ rerun_matches = <<>>
    /\ file = [ext |-> ""] /\ libs_available = TRUE
    /\ extraction = None /\ file_reads = 0
    /\ template_text = <<>> /\ recap_text = <<>> /\ template_type = "GENCON"
    /\ request = None /\ outcome = None /\ documents_db = <<>>

\* update_cp_template builds the mappings of recap_data and calls
\* _process_paragraph on the paragraph
ProcessParagraphStep ==
    /\ pc = "paragraph"
    /\ paragraph' = ProcessParagraph(paragraph, FieldMappings(recap_data))
    /\ pc' = "processed"
    /\ UNCHANGED <<genVars, dedupVars, extractVars, uploadVars, requestVars>>

SpecParagraph == InitParagraph /\ [][ProcessParagraphStep]_vars

\* letters, digits and the underscore
WordCharacters == {"a", "b", "c", "x", "V", "W", "_"} \cup CategoryDigit

\* the position at which the token {$name} that starts at position s of
\* the text ends, -1 if none starts there
TokenEnd(text, s) ==
    IF /\ s + 2 <= Len(text)
       /\ text[s + 1] = "{"
       /\ text[s + 2] = "$"
       /\ \E e \in (s + 4)..Len(text) :
              /\ text[e] = "}"
              /\ \A k \in (s + 3)..(e - 1) : text[k] \in WordCharacters
    THEN CHOOSE e \in (s + 4)..Len(text) :
             /\ text[e] = "}"
             /\ \A k \in (s + 3)..(e - 1) : text[k] \in WordCharacters
    ELSE 0 - 1

\* the non-empty value that the recap data has for the field named by the
\* token text[s:e], or the token itself
TokenValue(text, s, e, data) ==
    LET name == Slice(text, s + 2, e - 1)
    IN  IF HasKey(data, name) /\ Get(data, name).value # <<>>
        THEN Get(data, name).value
        ELSE Slice(text, s, e)

\* the text from position s on with every token of a value replaced by the
\* value, as pairs of a character and whether it comes from a value that
\* took the place of a token
RECURSIVE Substituted(_, _, _)
Substituted(text, s, data) ==
    IF s >= Len(text) THEN <<>>
    ELSE IF TokenEnd(text, s) # -1
    THEN LET e == TokenEnd(text, s)
             value == TokenValue(text, s, e, data)
         IN  [k \in 1..Len(value) |->
                 <<value[k], value # Slice(text, s, e)>>]
             \o Substituted(text, e, data)
    ELSE << <<text[s + 1], FALSE>> >> \o Substituted(text, s + 1, data)

\* the characters of the runs, each with whether its run is bold and red
RECURSIVE RunCharacters(_)
RunCharacters(runs) ==
    IF runs = <<>> THEN <<>>
    ELSE [k \in 1..Len(Head(runs).text) |->
             <<Head(runs).text[k],
               Head(runs).bold = TRUE /\ Head(runs).rgb = RGBColor(255, 0, 0) >>]
         \o RunCharacters(Tail(runs))

\* C26: after _process_paragraph the text of the paragraph is the text it
\* had with every token {$name} of a field of non-empty value replaced by
\* that value and everything else in place; the characters of the values
\* that took the place of a token, and only they, are in runs set bold and
\* red, every other run has neither; a paragraph without tokens keeps its
\* runs as they were
C26_ParagraphSubstitution ==
    [][(pc = "paragraph" /\ pc' = "processed") =>
          \A text \in {ParaText(paragraph)} :
              IF \A s \in 0..Len(text) : TokenEnd(text, s) = -1
              THEN paragraph' = paragraph
              ELSE /\ RunCharacters(paragraph')
                          = Substituted(text, 0, recap_data)
                   /\ \A r \in 1..Len(paragraph') :
                          \/ /\ paragraph'[r].bold = TRUE
                             /\ paragraph'[r].rgb = RGBColor(255, 0, 0)
                          \/ /\ paragraph'[r].bold = FALSE
                             /\ paragraph'[r].rgb = None]_vars

\* a paragraph "x{$a}{$c}" and recap data with the value "V" for a alone:
\* the paragraph reads "xV{$c}" and the run "V" alone is bold and red
C26_Witness ==
    /\ pc = "processed"
    /\ Get(recap_data, <<"a">>).value = <<"V">>
    /\ Len(paragraph) = 3
    /\ paragraph[1] = [text |-> <<"x">>, bold |-> FALSE, rgb |-> None]
    /\ paragraph[2] = [text |-> <<"V">>, bold |-> TRUE, rgb |-> RGBColor(255, 0, 0)]
    /\ paragraph[3] = [text |-> <<"{", "$", "c", "}">>, bold |-> FALSE,
                       rgb |-> None]

(***************************************************************************)
(* TemplatePreprocessor._validate_template_completeness                    *)
(***************************************************************************)

\* TemplatePreprocessor._validate_template_completeness on the structured
\* fields and the required fields of the configuration; the score is the
\* quotient <<found_required, len(required_fields)>>, <<0, 1>> for 0.0
ValidateTemplateCompleteness(fields, required_fields) ==
    LET found_field_types == [i \in 1..Len(fields) |-> fields[i].type]
        missing_fields ==
            SelectSeq(required_fields,
                      LAMBDA required_field :
                          ~ InSeq(required_field, found_field_types))
        found_required ==
            Len(SelectSeq(found_field_types,
                          LAMBDA f : InSeq(f, required_fields)))
        score == IF required_fields # <<>>
                 THEN <<found_required, Len(required_fields)>>
                 ELSE <<0, 1>>
    IN  [is_complete    |-> missing_fields = <<>>,
         missing_fields |-> missing_fields,
         warnings       |->
            (IF 10 * score[1] < 8 * score[2]
             THEN <<"Template may be incomplete - some required fields not detected">>
             ELSE <<>>)
            \o (IF Len(fields) < 5
                THEN <<"Very few fields detected - template may need manual review">>
                ELSE <<>>),
         score          |-> score]

\* a template of one of the configurations with at most MaxSameType fields
\* of each required type and of the type "notice_time", which no
\* configuration requires
InitCompleteness ==
    /\ pc = "validate_template"
    /\ template_type \in {"GENCON", "NYPE", "SHELLTIME"}
    /\ \E counts \in [1..(Len(RequiredFields(template_type)) + 1)
                         -> 0..MaxSameType] :
           LET types == Append(RequiredFields(template_type), "notice_time")
               RECURSIVE Fields(_)
               Fields(k) ==
                   IF k > Len(types) THEN <<>>
                   ELSE [i \in 1..counts[k] |-> [type |-> types[k]]]
                            \o Fields(k + 1)
           IN  structured_fields = Fields(1)
    /\ recap_data = NoRecap /\ original_text = <<>>
    /\ output_format = "text" /\ docx_available = TRUE /\ vectorizer = FALSE
    /\ similarities = NotCalled
    /\ recap_terms = <<>> /\ field_mappings = <<>>
    /\ filled_text = <<>> /\ filled_document = None
    /\ changes = <<>> /\ validation = None /\ statistics = None
    /\ matches = <<>> /\ unique_matches = <<>> /\ rerun_matches = <<>>
    /\ file = [ext |-> ""] /\ libs_available = TRUE
    /\ extraction = None /\ file_reads = 0
    /\ template_text = <<>> /\ recap_text = <<>>
    /\ RequestIdle

\* process calls _validate_template_completeness with the configuration of
\* the template type
ValidateTemplateStep ==
    /\ pc = "validate_template"
    /\ outcome' = [result |->
                      ValidateTemplateCompleteness(
                          structured_fields, RequiredFields(template_type))]
    /\ pc' = "template_validated"
    /\ UNCHANGED <<genVars, dedupVars, extractVars, uploadVars, request,
                   documents_db, docxVars>>

SpecCompleteness == InitCompleteness /\ [][ValidateTemplateStep]_vars

\* every required field type of the configuration is the type of a field
EveryRequiredFound ==
    \A k \in 1..Len(RequiredFields(template_type)) :
        \E i \in 1..Len(structured_fields) :
            structured_fields[i].type = RequiredFields(template_type)[k]

\* C30: the completeness score is within [0, 1], and it is 1 exactly when
\* every required field type of the configuration was found, which is when
\* is_complete is true
C30_CompletenessScore ==
    pc = "template_validated" =>
        /\ 0 <= outcome.result.score[1]
        /\ outcome.result.score[1] <= outcome.result.score[2]
        /\ outcome.result.is_complete <=> EveryRequiredFound
        /\ outcome.result.score[1] = outcome.result.score[2]
               <=> outcome.result.is_complete

\* an NYPE template with two vessel_name fields and no delivery_port field:
\* the score is 7/7 and the template is not complete
C30_FullScoreIncomplete ==
    /\ pc = "template_validated"
    /\ template_type = "NYPE"
    /\ Len(structured_fields) = 7
    /\ structured_fields[2].type = "vessel_name"
    /\ outcome.result.missing_fields = <<"delivery_port">>
    /\ ~ outcome.result.is_complete
    /\ outcome.result.score = <<7, 7>>

\* an NYPE template with two fields of every required type: the score is
\* 14/7
C30_ScoreAboveOne ==
    /\ pc = "template_validated"
    /\ template_type = "NYPE"
    /\ outcome.result.is_complete
    /\ outcome.result.score = <<14, 7>>

=============================================================================
